---- MODULE Spec2Model ----
(***************************************************************************)
(* Model of the OpenShare secure transfer pipeline (openshare-core,        *)
(* storage, openshare-cli): the content-addressed chunk store, the         *)
(* manifest, the ephemeral handshake, and the sender / receiver state      *)
(* machines of one connection, with an active network attacker sitting on  *)
(* the transport.                                                          *)
(*                                                                         *)
(* Cryptography is symbolic: a signature names its signer and the signed   *)
(* message, a Diffie-Hellman secret is the set of the two secrets that     *)
(* produced it, an AEAD frame names its key.  SHA-256 is modelled as an    *)
(* injective function of the bounded byte strings (collision freedom),     *)
(* hex encoding is computed digit by digit.                                *)
(***************************************************************************)
EXTENDS Integers, Sequences, FiniteSets, TLC

\* ------------------------------------------------------------------ bounds
MaxFileLen == 3
MaxChunkSize == 1
DigestLen == 2
MaxPreStored == 1
MaxBlobLen == 2
MaxPuts == 3
MaxConcCalls == 3
MaxReadBuf == 2
\* The framing at model scale: the length prefix has LenPrefixBytes digits
\* over Byte (4 bytes in the source), a frame may declare up to MaxFrameLen
\* bytes (10 MiB in the source), an XNonce has XNonceLen bytes (24) and an
\* AEAD tag TagLen bytes (16).
LenPrefixBytes == 2
MaxFrameLen == 2
XNonceLen == 1
TagLen == 1
MaxPayloadLen == 5
MaxPlainLen == 1
MaxFrameWrites == 2
\* Encrypted frames written between two sessions.
MaxSessionFrames == 2
\* Length of the file transferred over the reliable stream.
MaxLiveFileLen == 2
\* Length of the files two concurrent transfers carry.
MaxAsmFileLen == 2

\* ------------------------------------------------------------ byte strings
Byte == {0, 1}

Min(a, b) == IF a < b THEN a ELSE b

RECURSIVE BytesOfLen(_)
BytesOfLen(n) ==
  IF n = 0 THEN {<<>>}
  ELSE {b \o <<x>> : b \in BytesOfLen(n - 1), x \in Byte}

BytesUpTo(n) == UNION {BytesOfLen(k) : k \in 0..n}

None == <<>>
Some(v) == <<v>>
IsSome(o) == o # <<>>
Unwrap(o) == o[1]

\* ------------------------------------------------------- SHA-256 and hex
\* Injective numbering of the byte strings over Byte (bijective numeration).
RECURSIVE ByteCode(_)
ByteCode(b) ==
  IF b = <<>> THEN 0
  ELSE ByteCode(SubSeq(b, 1, Len(b) - 1)) * Cardinality(Byte) + b[Len(b)] + 1

RECURSIVE ToDigest(_, _)
ToDigest(n, len) ==
  IF len = 0 THEN <<>>
  ELSE ToDigest(n \div 256, len - 1) \o <<n % 256>>

\* Sha256::new(); update(data); finalize(): DigestLen digest bytes, distinct
\* for distinct data.  The leading bytes are shared by some inputs and differ
\* for others, as the two-character directory prefix of an id is.
Sha256(data) ==
  ToDigest(ByteCode(data) \div 3, DigestLen - 1) \o <<ByteCode(data) % 3>>

HexDigitsUpper ==
  <<"0", "1", "2", "3", "4", "5", "6", "7", "8", "9", "A", "B", "C", "D", "E", "F">>

HexDigits ==
  <<"0", "1", "2", "3", "4", "5", "6", "7", "8", "9", "a", "b", "c", "d", "e", "f">>

RECURSIVE hex_encode(_)
hex_encode(bytes) ==
  IF bytes = <<>> THEN <<>>
  ELSE <<HexDigits[(bytes[1] \div 16) + 1], HexDigits[(bytes[1] % 16) + 1]>>
       \o hex_encode(Tail(bytes))

ChunkId(data) == hex_encode(Sha256(data))

\* ------------------------------------------------------------ chunk store
\* The store is the directory tree under chunks_dir: path -> file content.
EmptyStore == [p \in {} |-> <<>>]

\* Faulty variant: the file name is dropped from the path.
chunk_path_prefix_only(chunk_id) ==
  <<SubSeq(chunk_id, 1, Min(2, Len(chunk_id))), <<>>>>

chunk_path(chunk_id) ==
  <<SubSeq(chunk_id, 1, Min(2, Len(chunk_id))), chunk_id>>

\* Faulty variant: an existing subdirectory is taken to mean the chunk is stored.
put_chunk_skip_existing_dir(store, data) ==
  LET chunk_id == hex_encode(Sha256(data))
      path == chunk_path(chunk_id)
  IN [id |-> chunk_id,
      store |-> IF \E p \in DOMAIN store : p[1] = path[1] THEN store
                ELSE [p \in DOMAIN store \cup {path} |->
                        IF p = path THEN data ELSE store[p]]]

\* Faulty variant: a chunk file that exists is appended to, not rewritten.
put_chunk_append_existing(store, data) ==
  LET chunk_id == hex_encode(Sha256(data))
      path == chunk_path(chunk_id)
  IN [id |-> chunk_id,
      store |-> [p \in DOMAIN store \cup {path} |->
                   IF p # path THEN store[p]
                   ELSE IF path \in DOMAIN store THEN store[path] \o data
                   ELSE data]]

\* put_chunk: hash, create the subdirectory, write the file, return the id.
put_chunk(store, data) ==
  LET chunk_id == hex_encode(Sha256(data))
      path == chunk_path(chunk_id)
  IN [id |-> chunk_id,
      store |-> [p \in DOMAIN store \cup {path} |->
                   IF p = path THEN data ELSE store[p]]]

\* The directories under chunks_dir: chunks_dir itself, which
\* LocalStorage::new created, and one subdirectory per stored prefix.  A path
\* names a directory when its non-empty components do: PathBuf::join of an
\* empty component only appends a separator.
Directories(store) == {<<>>} \cup {<<p[1]>> : p \in DOMAIN store}

IsDirectory(store, path) ==
  SelectSeq(path, LAMBDA c : c # <<>>) \in Directories(store)

\* Err(..): fs::read of a path that exists and is no regular file.
IoError == <<"Err", "Failed to read chunk">>

\* get_chunk: Ok(None) when the path does not exist, else the outcome of
\* fs::read: Ok(Some(content)) for a file, Err for a directory.
get_chunk(store, id) ==
  LET path == chunk_path(id)
  IN IF path \in DOMAIN store THEN Some(store[path])
     ELSE IF IsDirectory(store, path) THEN IoError
     ELSE None

RECURSIVE PutAll(_, _)
PutAll(store, chunks) ==
  IF chunks = {} THEN store
  ELSE LET c == CHOOSE x \in chunks : TRUE
       IN PutAll(put_chunk(store, c).store, chunks \ {c})

\* ------------------------------------------------------------- identities
\* Identity wraps an Ed25519 signing key; the key is named by its owner.
SenderIdentity == [signing_key |-> "sender"]
ReceiverIdentity == [signing_key |-> "receiver"]
AttackerIdentity == [signing_key |-> "attacker"]

public_key_bytes(identity) == [pk_of |-> identity.signing_key]

\* Identity::sign: an Ed25519 signature binds the signer and the message.
Ed25519Sign(identity, msg) == [signer |-> identity.signing_key, msg |-> msg]

\* VerifyingKey::verify(msg, sig)
Ed25519Verify(pubkey, msg, sig) == sig.signer = pubkey.pk_of /\ sig.msg = msg

\* ---------------------------------------------------------------- manifest
\* The lengths verify() and verify_with_pubkey() insist on.
PUBKEY_LEN == 32
SIG_LEN == 64

\* A Vec<u8> holding a key or a signature: its length, and the value its
\* bytes encode.
to_vec(value, len) == [len |-> len, val |-> value]

RECURSIVE SplitBy(_, _)
SplitBy(f, plan) ==
  IF plan = <<>> THEN <<>>
  ELSE <<SubSeq(f, 1, plan[1])>>
       \o SplitBy(SubSeq(f, plan[1] + 1, Len(f)), Tail(plan))

\* The byte counts f.read(&mut buf) may return until it returns 0: between 1
\* and buf.len() while bytes remain; 0 at once for an empty buffer.
RECURSIVE ReadPlans(_, _)
ReadPlans(remaining, bufLen) ==
  IF remaining = 0 \/ bufLen = 0 THEN {<<>>}
  ELSE UNION {{<<n>> \o p : p \in ReadPlans(remaining - n, bufLen)} :
                n \in 1..Min(bufLen, remaining)}

\* Manifest::from_file: one hex SHA-256 per read; size is the file length.
from_file(f, plan) ==
  [filename |-> "test.txt",
   size |-> Len(f),
   chunk_hashes |-> [i \in 1..Len(plan) |-> hex_encode(Sha256(SplitBy(f, plan)[i]))],
   sender_sig |-> None,
   sender_pubkey |-> None]

\* Faulty variant: size is left out of the encoding.
serialize_without_size(m) ==
  <<m.filename, m.chunk_hashes, m.sender_sig, m.sender_pubkey>>

\* Faulty variant: sender_pubkey is left out of the encoding.
serialize_without_pubkey(m) ==
  <<m.filename, m.size, m.chunk_hashes, m.sender_sig, None>>

\* bincode::serialize(&manifest): the fields in declaration order.
serialize(m) ==
  <<m.filename, m.size, m.chunk_hashes, m.sender_sig, m.sender_pubkey>>

\* bincode::deserialize
deserialize(b) ==
  [filename |-> b[1], size |-> b[2], chunk_hashes |-> b[3],
   sender_sig |-> b[4], sender_pubkey |-> b[5]]

\* Manifest::sign
sign(m, identity) ==
  LET withKey == [m EXCEPT !.sender_pubkey =
                    Some(to_vec(public_key_bytes(identity), PUBKEY_LEN))]
      copy == [withKey EXCEPT !.sender_sig = None]
      sig == Ed25519Sign(identity, serialize(copy))
  IN [withKey EXCEPT !.sender_sig = Some(to_vec(sig, SIG_LEN))]

\* Faulty variant: the key embedded in the manifest is used, not the argument.
verify_with_pubkey_embedded_key(m, pubkey) ==
  IF m.sender_sig = None THEN "MissingSignature"
  ELSE IF Unwrap(m.sender_sig).len # SIG_LEN THEN "MalformedSignature"
  ELSE LET copy == [m EXCEPT !.sender_sig = None]
       IN IF /\ m.sender_pubkey # None
             /\ Ed25519Verify(Unwrap(m.sender_pubkey).val, serialize(copy),
                              Unwrap(m.sender_sig).val)
          THEN "Ok" ELSE "InvalidSignature"

\* Manifest::verify_with_pubkey: pubkey is the [u8; 32] key itself.
verify_with_pubkey(m, pubkey) ==
  IF m.sender_sig = None THEN "MissingSignature"
  ELSE IF Unwrap(m.sender_sig).len # SIG_LEN THEN "MalformedSignature"
  ELSE LET copy == [m EXCEPT !.sender_sig = None]
       IN IF Ed25519Verify(pubkey, serialize(copy), Unwrap(m.sender_sig).val)
          THEN "Ok" ELSE "InvalidSignature"

\* Faulty variant: the length of the embedded key is not looked at.
verify_no_pubkey_length_check(m) ==
  IF m.sender_sig = None THEN "MissingSignature"
  ELSE IF m.sender_pubkey = None THEN "MissingSignature"
  ELSE verify_with_pubkey(m, Unwrap(m.sender_pubkey).val)

\* Manifest::verify
verify(m) ==
  IF m.sender_sig = None THEN "MissingSignature"
  ELSE IF m.sender_pubkey = None THEN "MissingSignature"
  ELSE IF Unwrap(m.sender_pubkey).len # PUBKEY_LEN THEN "MalformedSignature"
  ELSE verify_with_pubkey(m, Unwrap(m.sender_pubkey).val)

\* --------------------------------------------------------------- handshake
\* Ephemeral X25519 secrets and handshake nonces: fresh random values, one
\* per party.
XSecretI == "x_initiator"
XSecretR == "x_responder"
XSecretM == "x_attacker"
NonceA == "nonce_a"
NonceB == "nonce_b"

\* X25519Public::from(&x_secret)
X25519Public(secret) == [pub_of |-> secret]

\* A point of small order sent as x_pub (the all-zero point, for one), and
\* the 32 zero bytes that X25519 maps it to under every secret.
LowOrderPoint == [pub_of |-> "low_order"]
AllZeroSecret == {}

\* x_secret.diffie_hellman(&peer_pub): commutative in the two secrets, and
\* all zero for a peer point of small order.
diffie_hellman(secret, peer_pub) ==
  IF peer_pub = LowOrderPoint THEN AllZeroSecret
  ELSE {secret, peer_pub.pub_of}

\* Hkdf::<Sha256>::new(None, shared).expand(info, okm)
HkdfExpand(shared, info) == [shared |-> shared, info |-> info]

\* The length of a handshake nonce.
NONCE_LEN == 32

\* The length of a handshake message as its sender builds it.
HandshakeLen == PUBKEY_LEN + NONCE_LEN + SIG_LEN

\* message = x_pub || nonce || Ed25519 signature over x_pub || nonce.
\* len is the length of the message in bytes; of a message of at least
\* HandshakeLen bytes, x_pub, nonce and sig are its first HandshakeLen bytes.
HandshakeMessage(identity, secret, nonce) ==
  [t |-> "hs", x_pub |-> X25519Public(secret), nonce |-> nonce,
   sig |-> Ed25519Sign(identity, <<X25519Public(secret), nonce>>),
   len |-> HandshakeLen]

\* Faulty variant: no length test on the peer's message.
TooShortNever(buf) == FALSE

\* buf.len() < PUBKEY_LEN + NONCE_LEN + SIG_LEN
TooShort(buf) == buf.len < PUBKEY_LEN + NONCE_LEN + SIG_LEN

\* Faulty variant: the initiator puts the peer's nonce first.
InitiatorSessionKeyPeerFirst(buf) ==
  HkdfExpand(diffie_hellman(XSecretI, buf.x_pub), <<buf.nonce, NonceA>>)

\* Faulty variant: the responder puts its own nonce first.
ResponderSessionKeyOwnFirst(buf) ==
  HkdfExpand(diffie_hellman(XSecretR, buf.x_pub), <<NonceB, buf.nonce>>)

\* initiator_handshake, steps 6-7: info = nonce_a || nonce_b
InitiatorSessionKey(buf) ==
  HkdfExpand(diffie_hellman(XSecretI, buf.x_pub), <<NonceA, buf.nonce>>)

\* responder_handshake: info = nonce_a || nonce_b
ResponderSessionKey(buf) ==
  HkdfExpand(diffie_hellman(XSecretR, buf.x_pub), <<buf.nonce, NonceB>>)

\* The fresh random 24-byte XNonce of the n-th frame written.
XNonce(n) == <<"xnonce", n>>

\* Session::send_encrypted_frame: nonce || AEAD(key, nonce, plaintext).
\* key, xnonce and pt are what the ciphertext and tag were sealed with, hdr
\* is the nonce in the first 24 bytes of the frame, and intact says that the
\* ciphertext and tag are the bytes encrypt_in_place produced.
EncryptedFrame(key, xnonce, plaintext) ==
  [t |-> "enc", key |-> key, xnonce |-> xnonce, pt |-> plaintext,
   hdr |-> xnonce, intact |-> TRUE]

\* Faulty variant: the ciphertext is opened without binding it to the nonce
\* the frame carries.
DecryptIgnoringNonce(key, frame) ==
  IF frame.t = "enc" /\ frame.key = key /\ frame.intact
  THEN Some(frame.pt) ELSE None

\* Session::read_encrypted_frame: the plaintext, or None when AEAD open
\* fails. decrypt_in_place opens the ciphertext under the session key and
\* the nonce taken from the frame.
Decrypt(key, frame) ==
  IF /\ frame.t = "enc" /\ frame.key = key /\ frame.hdr = frame.xnonce
     /\ frame.intact
  THEN Some(frame.pt) ELSE None

ManifestBytes(m) == [kind |-> "manifest", m |-> serialize(m), data |-> <<>>]
ChunkBytes(data) == [kind |-> "chunk", m |-> <<>>, data |-> data]

\* The id of a plaintext as the receiver hashes it.
PlainId(pt) ==
  IF pt.kind = "chunk" THEN hex_encode(Sha256(pt.data)) ELSE <<"manifest-bytes">>

\* Faulty variant: the comparison is dropped and every received chunk is stored.
HashMatchesAlways(hex, chunk_hash) == TRUE

\* client.rs: `if &hex != chunk_hash` decides whether the chunk is stored.
HashMatches(hex, chunk_hash) == hex = chunk_hash

\* ------------------------------------------------------------------- state
VARIABLES
  file,          \* bytes of the file the sender transfers
  chunk_size,    \* cfg.chunk_size
  reads,         \* byte counts the reads of from_file returned
  s_input,       \* the manifest send_manifest_over was called with
  s_manifest,    \* send_manifest_over: the manifest
  s_pc,          \* send_manifest_over: position
  s_i,           \* send_manifest_over: chunks of the loop already handled
  s_key,         \* initiator Session (None before the handshake)
  s_buf,         \* initiator: the responder message it consumed
  s_skipped,     \* positions whose chunk was missing locally and skipped
  s_err,         \* the error send_manifest_over returned
  sstore,        \* sender's LocalStorage
  r_pc,          \* handle_transfer / accept_and_receive: position
  r_i,           \* accept_and_receive: chunk frames already handled
  r_key,         \* responder Session
  r_buf,         \* responder: the initiator message it consumed
  r_manifest,    \* the deserialized manifest
  r_mismatch,    \* positions whose received chunk did not hash to its id
  r_written,     \* put_chunk calls accept_and_receive made: position, id, data
  r_verified,    \* manifest.verify() has returned Ok
  r_err,         \* the error the receiving task ended with
  a_i,           \* handle_transfer: chunks already appended to the output
  outfile,       \* <output_dir>/<filename>: None, or its content
  rstore,        \* receiver's LocalStorage
  rstore0,       \* receiver's store when the transfer started
  i2r,           \* frames in flight, initiator to responder
  r2i,           \* frames in flight, responder to initiator
  i2r_closed,    \* the sender dropped its transport
  r2i_closed,    \* the receiver dropped its transport
  wire,          \* every frame the two clients wrote, in order
  tampered,      \* the attacker replaced a frame
  store_fs,      \* a LocalStorage driven call by call
  store_puts,    \* the byte strings put into store_fs so far
  store_ids,     \* byte string and the id its first put_chunk returned
  store_last,    \* the last call on store_fs and what it returned
  cc_put,        \* concurrent put_chunk calls on store_fs: position of each
  cc_get,        \* a concurrent get_chunk call on store_fs: position, result
  cc_calls,      \* put_chunk calls started so far
  mf_pc,         \* a manifest of the file: "new", then "built"
  mf_m,          \* that manifest, as built, signed and modified
  mf_signed,     \* the manifest as the last sign left it
  mf_last,       \* the last verify call on mf_m and what it returned
  fr_stream,     \* bytes written to a transport and not yet read
  fr_closed,     \* the writing end of that transport is gone
  fr_pending,    \* the frames written whose bytes are in fr_stream
  fr_writes,     \* frames written so far
  fr_pc,         \* the operation reading frames: "reading" or "failed"
  fr_last,       \* the last frame read and what it returned
  ss_chan,       \* encrypted frames in flight between two sessions
  ss_sent,       \* encrypted frames written so far
  ss_pc,         \* the session reading them: "reading" or "failed"
  ss_last,       \* the last read_encrypted_frame and what it returned
  asm_task,      \* handle_transfer tasks spawned by listen_for_transfers
  asm_fs,        \* the files under and around output_dir: path to content
  asm_store      \* the LocalStorage the tasks share

storeVars == <<store_fs, store_puts, store_ids, store_last>>
concVars == <<cc_put, cc_get, cc_calls>>
manifestVars == <<mf_pc, mf_m, mf_signed, mf_last>>
frameVars == <<fr_stream, fr_closed, fr_pending, fr_writes, fr_pc, fr_last>>
sessionVars == <<ss_chan, ss_sent, ss_pc, ss_last>>
assembleVars == <<asm_task, asm_fs, asm_store>>

vars ==
  <<file, chunk_size, reads, s_input, s_manifest, s_pc, s_i, s_key, s_buf,
    s_skipped, s_err, sstore, r_pc, r_i, r_key, r_buf, r_manifest, r_mismatch, r_written,
    r_verified, r_err, a_i, outfile, rstore, rstore0, i2r, r2i, i2r_closed,
    r2i_closed, wire, tampered, storeVars, concVars, manifestVars, frameVars,
    sessionVars, assembleVars>>

senderVars == <<s_manifest, s_pc, s_i, s_key, s_buf, s_skipped, s_err>>
receiverVars ==
  <<r_pc, r_i, r_key, r_buf, r_manifest, r_mismatch, r_written, r_verified,
    r_err, a_i, outfile, rstore>>
inputVars ==
  <<file, chunk_size, reads, s_input, sstore, rstore0, storeVars, concVars,
    manifestVars, frameVars, sessionVars, assembleVars>>
clientVars ==
  <<file, chunk_size, reads, s_input, sstore, rstore0, senderVars, receiverVars, i2r,
    r2i, i2r_closed, r2i_closed, wire, tampered>>
transferVars == <<clientVars, sessionVars, assembleVars>>

Range(f) == {f[i] : i \in DOMAIN f}

\* The chunks of the file as from_file read them.
FileChunks == SplitBy(file, reads)

NoCall ==
  [op |-> "new", data |-> <<>>, id |-> <<>>, ret |-> None,
   before |-> EmptyStore, again |-> FALSE]

PutWorkers == {"put1", "put2"}

\* No call on the stand-alone store, no manifest under construction, nothing
\* on the stand-alone transport.
StoreIdle ==
  /\ store_fs = EmptyStore /\ store_puts = {} /\ store_ids = {}
  /\ store_last = NoCall
  /\ cc_put = [w \in PutWorkers |-> [pc |-> "idle", data |-> <<>>, off |-> 0]]
  /\ cc_get = [pc |-> "idle", id |-> <<>>, ret |-> None]
  /\ cc_calls = 0

ManifestIdle ==
  /\ mf_pc = "new" /\ mf_m = None /\ mf_signed = None
  /\ mf_last = [op |-> "none", m |-> None, key |-> None, ret |-> ""]

FrameIdle ==
  /\ fr_stream = <<>> /\ fr_closed = FALSE /\ fr_pending = <<>>
  /\ fr_writes = 0 /\ fr_pc = "reading"
  /\ fr_last = [op |-> "none", before |-> <<>>, eof |-> FALSE, ret |-> "",
                data |-> <<>>, rest |-> <<>>, sent |-> None]

SessionIdle ==
  /\ ss_chan = <<>> /\ ss_sent = <<>> /\ ss_pc = "reading"
  /\ ss_last = [ret |-> "", data |-> None, frame |-> None]

Tasks == {"task1", "task2"}

AssembleIdle ==
  /\ asm_task = [t \in Tasks |->
                  [pc |-> "idle", m |-> None, i |-> 0, off |-> 0,
                   path |-> <<>>, content |-> <<>>, left |-> None,
                   err |-> ""]]
  /\ asm_fs = <<>> /\ asm_store = EmptyStore

\* Both clients constructed and idle, nothing on the transport.
Idle ==
  /\ s_pc = "idle" /\ s_i = 0 /\ s_key = None /\ s_buf = None
  /\ s_skipped = {} /\ s_err = ""
  /\ r_pc = "idle" /\ r_i = 0 /\ r_key = None /\ r_buf = None
  /\ r_manifest = None /\ r_mismatch = {} /\ r_written = {}
  /\ r_verified = FALSE /\ r_err = "" /\ a_i = 0 /\ outfile = None
  /\ i2r = <<>> /\ r2i = <<>> /\ i2r_closed = FALSE /\ r2i_closed = FALSE
  /\ wire = <<>> /\ tampered = FALSE

Init ==
  /\ file \in BytesUpTo(MaxFileLen)
  /\ chunk_size \in 0..MaxChunkSize
  /\ reads \in ReadPlans(Len(file), chunk_size)
  /\ s_manifest = from_file(file, reads)
  /\ s_input = s_manifest
  /\ \E held \in SUBSET Range(SplitBy(file, reads)) :
       sstore = PutAll(EmptyStore, held)
  /\ \E pre \in SUBSET Range(SplitBy(file, reads)) :
       /\ Cardinality(pre) <= MaxPreStored
       /\ rstore = PutAll(EmptyStore, pre)
  /\ rstore0 = rstore
  /\ Idle
  /\ StoreIdle /\ ManifestIdle /\ FrameIdle /\ SessionIdle /\ AssembleIdle

\* ------------------------------------------------------------------ sender
\* Faulty variant: the initiator reads message B before it wrote message A.
SendStartReadFirst ==
  /\ s_pc = "idle"
  /\ s_manifest' = sign(s_manifest, SenderIdentity)
  /\ s_pc' = "read_b"
  /\ UNCHANGED <<s_i, s_key, s_buf, s_skipped, s_err, receiverVars, inputVars,
                 i2r, r2i, i2r_closed, r2i_closed, wire, tampered>>

\* send_manifest_over: sign the manifest, then the initiator handshake up to
\* the write of message A.
SendStart ==
  /\ s_pc = "idle"
  /\ s_manifest' = sign(s_manifest, SenderIdentity)
  /\ i2r' = Append(i2r, HandshakeMessage(SenderIdentity, XSecretI, NonceA))
  /\ wire' = Append(wire, [from |-> "initiator", kind |-> "msg_a", id |-> <<>>])
  /\ s_pc' = "read_b"
  /\ UNCHANGED <<s_i, s_key, s_buf, s_skipped, s_err, receiverVars, inputVars,
                 r2i, i2r_closed, r2i_closed, tampered>>

\* initiator_handshake: read message B, reject it when it is too short,
\* derive the session key.  The peer's signature is extracted and never
\* verified.
SendReadB ==
  /\ s_pc = "read_b"
  /\ r2i # <<>> \/ r2i_closed
  /\ IF r2i = <<>>
     THEN /\ s_pc' = "failed"
          /\ s_err' = "Io"
          /\ i2r_closed' = TRUE
          /\ UNCHANGED <<s_key, s_buf, r2i>>
     ELSE /\ s_buf' = Some(Head(r2i))
          /\ r2i' = Tail(r2i)
          /\ IF TooShort(Head(r2i))
             THEN /\ s_pc' = "failed"
                  /\ s_err' = "HandshakeTooShort"
                  /\ i2r_closed' = TRUE
                  /\ UNCHANGED s_key
             ELSE /\ s_key' = Some(InitiatorSessionKey(Head(r2i)))
                  /\ s_pc' = "manifest"
                  /\ UNCHANGED <<i2r_closed, s_err>>
  /\ UNCHANGED <<s_manifest, s_i, s_skipped, receiverVars, inputVars, i2r,
                 r2i_closed, wire, tampered>>

\* Faulty variant: the manifest is serialized as it was passed in, before
\* sign.
SendManifestBeforeSigning ==
  /\ s_pc = "manifest"
  /\ i2r' = Append(i2r, EncryptedFrame(Unwrap(s_key), XNonce(Len(wire)),
                                       ManifestBytes(s_input)))
  /\ wire' = Append(wire, [from |-> "initiator", kind |-> "manifest", id |-> <<>>])
  /\ s_pc' = "chunks"
  /\ UNCHANGED <<s_manifest, s_i, s_key, s_buf, s_skipped, s_err,
                 receiverVars, inputVars, r2i, i2r_closed, r2i_closed,
                 tampered>>

\* send_manifest_over step 3: the manifest as one encrypted frame.
SendManifest ==
  /\ s_pc = "manifest"
  /\ i2r' = Append(i2r, EncryptedFrame(Unwrap(s_key), XNonce(Len(wire)),
                                       ManifestBytes(s_manifest)))
  /\ wire' = Append(wire, [from |-> "initiator", kind |-> "manifest", id |-> <<>>])
  /\ s_pc' = "chunks"
  /\ UNCHANGED <<s_manifest, s_i, s_key, s_buf, s_skipped, s_err,
                 receiverVars, inputVars, r2i, i2r_closed, r2i_closed,
                 tampered>>

\* Faulty variant: the loop walks chunk_hashes from the end.
SenderChunkAtReversed(m, i) == m.chunk_hashes[Len(m.chunk_hashes) - i]

\* The hash the sender's loop handles at its step i (0-based).
SenderChunkAt(m, i) == m.chunk_hashes[i + 1]

\* send_manifest_over step 4, one iteration: send the chunk, or warn and skip
\* when the store does not hold it.
SendChunk ==
  /\ s_pc = "chunks"
  /\ s_i < Len(s_manifest.chunk_hashes)
  /\ LET chunk_hash == SenderChunkAt(s_manifest, s_i)
         got == get_chunk(sstore, chunk_hash)
     IN IF got = IoError
        THEN /\ s_pc' = "failed"
             /\ s_err' = "StorageIo"
             /\ i2r_closed' = TRUE
             /\ UNCHANGED <<i2r, wire, s_skipped, s_i>>
        ELSE /\ IF IsSome(got)
                THEN /\ i2r' = Append(i2r, EncryptedFrame(Unwrap(s_key),
                                        XNonce(Len(wire)), ChunkBytes(Unwrap(got))))
                     /\ wire' = Append(wire, [from |-> "initiator", kind |-> "chunk",
                                              id |-> PlainId(ChunkBytes(Unwrap(got)))])
                     /\ UNCHANGED s_skipped
                ELSE /\ s_skipped' = s_skipped \cup {s_i + 1}
                     /\ UNCHANGED <<i2r, wire>>
             /\ s_i' = s_i + 1
             /\ UNCHANGED <<s_pc, s_err, i2r_closed>>
  /\ UNCHANGED <<s_manifest, s_key, s_buf, receiverVars, inputVars, r2i,
                 r2i_closed, tampered>>

\* Faulty variant: the transport stays open after send_manifest_over
\* returned.
SendDoneKeepOpen ==
  /\ s_pc = "chunks"
  /\ s_i = Len(s_manifest.chunk_hashes)
  /\ s_pc' = "done"
  /\ UNCHANGED <<s_manifest, s_i, s_key, s_buf, s_skipped, s_err,
                 receiverVars, inputVars, i2r, r2i, i2r_closed, r2i_closed,
                 wire, tampered>>

\* send_manifest_over returns Ok(()); the transport is dropped.
SendDone ==
  /\ s_pc = "chunks"
  /\ s_i = Len(s_manifest.chunk_hashes)
  /\ s_pc' = "done"
  /\ i2r_closed' = TRUE
  /\ UNCHANGED <<s_manifest, s_i, s_key, s_buf, s_skipped, s_err,
                 receiverVars, inputVars, i2r, r2i, r2i_closed, wire,
                 tampered>>

\* ---------------------------------------------------------------- receiver
\* The receiving task ends with an error; its transport is dropped.
RecvFail(err) ==
  /\ r_pc' = "failed"
  /\ r_err' = err
  /\ r2i_closed' = TRUE

\* responder_handshake: read message A, reject it when it is too short,
\* write message B, derive the session key.  The initiator's signature is
\* extracted and never verified.
RecvHandshake ==
  /\ r_pc = "idle"
  /\ i2r # <<>> \/ i2r_closed
  /\ IF i2r = <<>>
     THEN /\ RecvFail("Io")
          /\ UNCHANGED <<r_buf, r_key, i2r, r2i, wire>>
     ELSE /\ r_buf' = Some(Head(i2r))
          /\ i2r' = Tail(i2r)
          /\ IF TooShort(Head(i2r))
             THEN /\ RecvFail("HandshakeTooShort")
                  /\ UNCHANGED <<r_key, r2i, wire>>
             ELSE /\ r2i' = Append(r2i, HandshakeMessage(ReceiverIdentity,
                                                         XSecretR, NonceB))
                  /\ wire' = Append(wire, [from |-> "responder",
                                           kind |-> "msg_b", id |-> <<>>])
                  /\ r_key' = Some(ResponderSessionKey(Head(i2r)))
                  /\ r_pc' = "manifest"
                  /\ UNCHANGED <<r_err, r2i_closed>>
  /\ UNCHANGED <<senderVars, inputVars, r_i, r_manifest, r_mismatch, r_written,
                 r_verified, a_i, outfile, rstore, i2r_closed, tampered>>

\* accept_and_receive: read and deserialize the manifest.  No verification
\* happens here.
RecvManifest ==
  /\ r_pc = "manifest"
  /\ i2r # <<>> \/ i2r_closed
  /\ IF i2r = <<>>
     THEN /\ RecvFail("Io")
          /\ UNCHANGED <<r_manifest, i2r>>
     ELSE LET pt == Decrypt(Unwrap(r_key), Head(i2r))
          IN /\ i2r' = Tail(i2r)
             /\ IF pt = None
                THEN RecvFail("DecryptionFailed") /\ UNCHANGED r_manifest
                ELSE IF Unwrap(pt).kind # "manifest"
                THEN RecvFail("Deserialize") /\ UNCHANGED r_manifest
                ELSE /\ r_manifest' = Some(deserialize(Unwrap(pt).m))
                     /\ r_pc' = "chunks"
                     /\ UNCHANGED <<r_err, r2i_closed>>
  /\ UNCHANGED <<senderVars, inputVars, r_i, r_key, r_buf, r_mismatch,
                 r_written, r_verified, a_i, outfile, rstore, r2i, i2r_closed,
                 wire, tampered>>

\* accept_and_receive, one iteration of the chunk loop: read a frame, hash
\* it, store it when the hash is the expected one, else warn and continue.
RecvChunk ==
  /\ r_pc = "chunks"
  /\ r_i < Len(Unwrap(r_manifest).chunk_hashes)
  /\ i2r # <<>> \/ i2r_closed
  /\ IF i2r = <<>>
     THEN /\ RecvFail("Io")
          /\ UNCHANGED <<r_i, r_mismatch, r_written, rstore, i2r>>
     ELSE LET pt == Decrypt(Unwrap(r_key), Head(i2r))
              chunk_hash == Unwrap(r_manifest).chunk_hashes[r_i + 1]
          IN /\ i2r' = Tail(i2r)
             /\ IF pt = None
                THEN /\ RecvFail("DecryptionFailed")
                     /\ UNCHANGED <<r_i, r_mismatch, r_written, rstore>>
                ELSE /\ IF ~HashMatches(PlainId(Unwrap(pt)), chunk_hash)
                        THEN /\ r_mismatch' = r_mismatch \cup {r_i + 1}
                             /\ UNCHANGED <<r_written, rstore>>
                        ELSE LET res == put_chunk(rstore, Unwrap(pt).data)
                             IN /\ rstore' = res.store
                                /\ r_written' = r_written \cup
                                     {[i |-> r_i + 1, id |-> res.id,
                                       data |-> Unwrap(pt).data]}
                                /\ UNCHANGED r_mismatch
                     /\ r_i' = r_i + 1
                     /\ UNCHANGED <<r_pc, r_err, r2i_closed>>
  /\ UNCHANGED <<senderVars, inputVars, r_key, r_buf, r_manifest, r_verified,
                 a_i, outfile, r2i, i2r_closed, wire, tampered>>

\* accept_and_receive returns Ok(manifest); the transport is dropped.
RecvReturn ==
  /\ r_pc = "chunks"
  /\ r_i = Len(Unwrap(r_manifest).chunk_hashes)
  /\ r_pc' = "returned"
  /\ r2i_closed' = TRUE
  /\ UNCHANGED <<senderVars, inputVars, r_i, r_key, r_buf, r_manifest,
                 r_mismatch, r_written, r_verified, r_err, a_i, outfile, rstore,
                 i2r, r2i, i2r_closed, wire, tampered>>

\* handle_transfer: manifest.verify(), then File::create of the output.
VerifyManifest ==
  /\ r_pc = "returned"
  /\ IF verify(Unwrap(r_manifest)) = "Ok"
     THEN /\ r_verified' = TRUE
          /\ outfile' = Some(<<>>)
          /\ r_pc' = "assemble"
          /\ UNCHANGED r_err
     ELSE /\ r_pc' = "failed"
          /\ r_err' = verify(Unwrap(r_manifest))
          /\ UNCHANGED <<r_verified, outfile>>
  /\ UNCHANGED <<senderVars, inputVars, r_i, r_key, r_buf, r_manifest,
                 r_mismatch, r_written, a_i, rstore, i2r, r2i, i2r_closed,
                 r2i_closed, wire, tampered>>

\* handle_transfer, one iteration of the assembly loop.
AssembleChunk ==
  /\ r_pc = "assemble"
  /\ a_i < Len(Unwrap(r_manifest).chunk_hashes)
  /\ LET got == get_chunk(rstore, Unwrap(r_manifest).chunk_hashes[a_i + 1])
     IN IF got = IoError
        THEN /\ r_pc' = "failed"
             /\ r_err' = "StorageIo"
             /\ UNCHANGED <<outfile, a_i>>
        ELSE IF IsSome(got)
        THEN /\ outfile' = Some(Unwrap(outfile) \o Unwrap(got))
             /\ a_i' = a_i + 1
             /\ UNCHANGED <<r_pc, r_err>>
        ELSE /\ r_pc' = "failed"
             /\ r_err' = "MissingChunk"
             /\ UNCHANGED <<outfile, a_i>>
  /\ UNCHANGED <<senderVars, inputVars, r_i, r_key, r_buf, r_manifest,
                 r_mismatch, r_written, r_verified, rstore, i2r, r2i,
                 i2r_closed, r2i_closed, wire, tampered>>

\* handle_transfer: flush, "File received", Ok(()).
AssembleDone ==
  /\ r_pc = "assemble"
  /\ a_i = Len(Unwrap(r_manifest).chunk_hashes)
  /\ r_pc' = "done"
  /\ UNCHANGED <<senderVars, inputVars, r_i, r_key, r_buf, r_manifest,
                 r_mismatch, r_written, r_verified, r_err, a_i, outfile, rstore,
                 i2r, r2i, i2r_closed, r2i_closed, wire, tampered>>

\* ---------------------------------------------------------------- attacker
\* An active attacker on the transport replaces the frame at the head of a
\* direction by one it can build: a handshake message carrying its own
\* ephemeral key, or a frame sealed under a session key it can derive.
AttackerHandshakeMessages(orig) ==
  {[t |-> "hs", x_pub |-> X25519Public(XSecretM), nonce |-> orig.nonce,
    sig |-> Ed25519Sign(AttackerIdentity, <<X25519Public(XSecretM), orig.nonce>>),
    len |-> orig.len]}

\* The attacker's manifests of the file: signed by the attacker, and the same
\* with the size changed after signing.
AttackerManifests ==
  LET good == sign(from_file(file, reads), AttackerIdentity)
  IN {good, [good EXCEPT !.size = Len(file) + 1]}

\* The chunks the attacker injects: those of the file, and every one-byte
\* string (so at least one chunk that is not the expected one).
AttackerChunks == Range(SplitBy(file, reads)) \cup BytesOfLen(1)

\* What the attacker seals in place of the frame at the given position of
\* the stream: in place of the manifest frame a manifest of its own or raw
\* bytes, in place of a chunk frame a chunk.
AttackerPlaintexts(replaced) ==
  IF replaced.pt.kind = "manifest"
  THEN {ManifestBytes(m) : m \in AttackerManifests} \cup {ChunkBytes(<<0>>)}
  ELSE {ChunkBytes(d) : d \in AttackerChunks}

\* The XNonce of the frames the attacker seals.
AttackerXNonce == <<"xnonce-attacker">>

\* A frame the attacker already replaced is not replaced again: it chose
\* the replacement it wanted at once.
FromAttacker(frame) ==
  IF frame.t = "hs" THEN frame.x_pub = X25519Public(XSecretM)
  ELSE frame.xnonce = AttackerXNonce

TamperMessageA ==
  /\ i2r # <<>>
  /\ Head(i2r).t = "hs"
  /\ ~FromAttacker(Head(i2r))
  /\ \E msg \in AttackerHandshakeMessages(Head(i2r)) :
       i2r' = <<msg>> \o Tail(i2r)
  /\ tampered' = TRUE
  /\ UNCHANGED <<senderVars, receiverVars, inputVars, r2i, i2r_closed,
                 r2i_closed, wire>>

TamperMessageB ==
  /\ r2i # <<>>
  /\ ~FromAttacker(Head(r2i))
  /\ \E msg \in AttackerHandshakeMessages(Head(r2i)) :
       r2i' = <<msg>> \o Tail(r2i)
  /\ tampered' = TRUE
  /\ UNCHANGED <<senderVars, receiverVars, inputVars, i2r, i2r_closed,
                 r2i_closed, wire>>

TamperFrame ==
  /\ i2r # <<>>
  /\ Head(i2r).t = "enc"
  /\ ~FromAttacker(Head(i2r))
  /\ IsSome(r_key)
  /\ XSecretM \in Unwrap(r_key).shared
  /\ \E pt \in AttackerPlaintexts(Head(i2r)) :
       i2r' = <<EncryptedFrame(Unwrap(r_key), AttackerXNonce, pt)>> \o Tail(i2r)
  /\ tampered' = TRUE
  /\ UNCHANGED <<senderVars, receiverVars, inputVars, r2i, i2r_closed,
                 r2i_closed, wire>>

\* ------------------------------------------------------------ specification
Next ==
  \/ SendStart
  \/ SendReadB
  \/ SendManifest
  \/ SendChunk
  \/ SendDone
  \/ RecvHandshake
  \/ RecvManifest
  \/ RecvChunk
  \/ RecvReturn
  \/ VerifyManifest
  \/ AssembleChunk
  \/ AssembleDone
  \/ TamperMessageA
  \/ TamperMessageB
  \/ TamperFrame

Spec == Init /\ [][Next]_vars

\* The two clients over a reliable ordered stream: no frame is replaced.
\* Each client is a task of the tokio runtime, which polls a task whenever
\* it can make a step, so a step that stays possible is eventually taken.
NextReliable ==
  \/ SendStart
  \/ SendReadB
  \/ SendManifest
  \/ SendChunk
  \/ SendDone
  \/ RecvHandshake
  \/ RecvManifest
  \/ RecvChunk
  \/ RecvReturn
  \/ VerifyManifest
  \/ AssembleChunk
  \/ AssembleDone

Fairness ==
  /\ WF_vars(SendStart) /\ WF_vars(SendReadB) /\ WF_vars(SendManifest)
  /\ WF_vars(SendChunk) /\ WF_vars(SendDone)
  /\ WF_vars(RecvHandshake) /\ WF_vars(RecvManifest) /\ WF_vars(RecvChunk)
  /\ WF_vars(RecvReturn) /\ WF_vars(VerifyManifest)
  /\ WF_vars(AssembleChunk) /\ WF_vars(AssembleDone)

InitLive ==
  /\ Init
  /\ Len(file) <= MaxLiveFileLen

SpecLive == InitLive /\ [][NextReliable]_vars /\ Fairness

\* ------------------------------------------------- the chunk store alone
\* LocalStorage::new on an empty directory, then put_chunk and get_chunk
\* calls with any arguments.
TransferIdle ==
  /\ file = <<>> /\ chunk_size = 0 /\ reads = <<>>
  /\ s_manifest = from_file(<<>>, <<>>)
  /\ s_input = s_manifest
  /\ sstore = EmptyStore /\ rstore = EmptyStore /\ rstore0 = EmptyStore
  /\ Idle

InitStore ==
  /\ StoreIdle /\ TransferIdle /\ ManifestIdle /\ FrameIdle
  /\ SessionIdle /\ AssembleIdle

Blobs == BytesUpTo(MaxBlobLen)

\* The ids asked for: those of the blobs, one that is no hash at all, and
\* the empty string.
AskedIds ==
  {hex_encode(Sha256(b)) : b \in Blobs} \cup {<<"n", "o", "n", "e">>, <<>>}

StorePut ==
  /\ Cardinality(store_puts) < MaxPuts
  /\ \E b \in Blobs :
       LET res == put_chunk(store_fs, b)
       IN /\ store_fs' = res.store
          /\ store_puts' = store_puts \cup {b}
          /\ store_ids' = IF b \in store_puts THEN store_ids
                          ELSE store_ids \cup {<<b, res.id>>}
          /\ store_last' = [op |-> "put", data |-> b, id |-> res.id,
                            ret |-> None, before |-> store_fs,
                            again |-> b \in store_puts]
  /\ UNCHANGED <<transferVars, concVars, manifestVars, frameVars>>

StoreGet ==
  /\ \E id \in AskedIds :
       store_last' = [op |-> "get", data |-> <<>>, id |-> id,
                      ret |-> get_chunk(store_fs, id), before |-> store_fs,
                      again |-> FALSE]
  /\ UNCHANGED <<store_fs, store_puts, store_ids, transferVars, concVars,
                 manifestVars, frameVars>>

NextStore ==
  \/ StorePut
  \/ StoreGet

SpecStore == InitStore /\ [][NextStore]_vars

\* ------------------------------------- the chunk store, concurrent calls
\* put_chunk and get_chunk calls of concurrent tasks on one LocalStorage,
\* step by step: fs::write is File::create (create or truncate) followed by
\* the writes of the bytes, each task at its own file offset; get_chunk is
\* path.exists() followed by fs::read.
ConcIds == {hex_encode(Sha256(b)) : b \in Blobs}

\* write(2) of one byte at an offset of a file; a gap reads as zero bytes.
WriteAt(content, off, byte) ==
  IF off < Len(content) THEN [content EXCEPT ![off + 1] = byte]
  ELSE content \o [i \in 1..(off - Len(content)) |-> 0] \o <<byte>>

\* put_chunk up to File::create: hash, create the subdirectory, create or
\* truncate the chunk file.
PutOpen(w) ==
  /\ cc_put[w].pc = "idle"
  /\ cc_calls < MaxConcCalls
  /\ \E b \in Blobs :
       LET path == chunk_path(hex_encode(Sha256(b)))
       IN /\ store_fs' = [p \in DOMAIN store_fs \cup {path} |->
                            IF p = path THEN <<>> ELSE store_fs[p]]
          /\ cc_put' = [cc_put EXCEPT ![w] =
                          [pc |-> "writing", data |-> b, off |-> 0]]
  /\ cc_calls' = cc_calls + 1
  /\ UNCHANGED <<store_puts, store_ids, store_last, cc_get, transferVars,
                 manifestVars, frameVars>>

\* fs::write, the next byte of the data.
PutWrite(w) ==
  /\ cc_put[w].pc = "writing"
  /\ cc_put[w].off < Len(cc_put[w].data)
  /\ LET path == chunk_path(hex_encode(Sha256(cc_put[w].data)))
     IN store_fs' = [store_fs EXCEPT ![path] =
                       WriteAt(@, cc_put[w].off, cc_put[w].data[cc_put[w].off + 1])]
  /\ cc_put' = [cc_put EXCEPT ![w].off = @ + 1]
  /\ UNCHANGED <<store_puts, store_ids, store_last, cc_get, cc_calls,
                 transferVars, manifestVars, frameVars>>

\* put_chunk returns Ok(chunk_id).
PutReturn(w) ==
  /\ cc_put[w].pc = "writing"
  /\ cc_put[w].off = Len(cc_put[w].data)
  /\ cc_put' = [cc_put EXCEPT ![w] = [pc |-> "idle", data |-> <<>>, off |-> 0]]
  /\ store_puts' = store_puts \cup {cc_put[w].data}
  /\ UNCHANGED <<store_fs, store_ids, store_last, cc_get, cc_calls,
                 transferVars, manifestVars, frameVars>>

\* get_chunk up to path.exists(): Ok(None) when the path does not exist.
GetExists ==
  /\ cc_get.pc \in {"idle", "returned"}
  /\ \E id \in ConcIds :
       cc_get' = IF chunk_path(id) \in DOMAIN store_fs
                 THEN [pc |-> "read", id |-> id, ret |-> None]
                 ELSE [pc |-> "returned", id |-> id, ret |-> None]
  /\ UNCHANGED <<storeVars, cc_put, cc_calls, transferVars, manifestVars,
                 frameVars>>

\* get_chunk: fs::read returns what the file holds now.
GetRead ==
  /\ cc_get.pc = "read"
  /\ cc_get' = [cc_get EXCEPT !.pc = "returned",
                              !.ret = Some(store_fs[chunk_path(cc_get.id)])]
  /\ UNCHANGED <<storeVars, cc_put, cc_calls, transferVars, manifestVars,
                 frameVars>>

NextConc ==
  \/ \E w \in PutWorkers : PutOpen(w)
  \/ \E w \in PutWorkers : PutWrite(w)
  \/ \E w \in PutWorkers : PutReturn(w)
  \/ GetExists
  \/ GetRead

SpecConc == InitStore /\ [][NextConc]_vars

\* ---------------------------------------------------- the manifest alone
\* Manifest::from_file on any file with any buffer size and any reads, then
\* sign by any identity, changes to the fields of the signed manifest, and
\* verify / verify_with_pubkey calls.
InitManifest ==
  /\ file \in BytesUpTo(MaxFileLen)
  /\ chunk_size \in 0..MaxReadBuf
  /\ reads \in ReadPlans(Len(file), chunk_size)
  /\ s_manifest = from_file(file, reads)
  /\ s_input = s_manifest
  /\ sstore = EmptyStore /\ rstore = EmptyStore /\ rstore0 = EmptyStore
  /\ Idle
  /\ StoreIdle /\ ManifestIdle /\ FrameIdle /\ SessionIdle /\ AssembleIdle

Identities == {SenderIdentity, ReceiverIdentity, AttackerIdentity}

Reverse(q) == [i \in 1..Len(q) |-> q[Len(q) + 1 - i]]

\* The manifests that differ from m in one field: another file name, another
\* size, chunk_hashes reordered, shortened, extended or with another entry,
\* another key, key or signature absent or of another length, another
\* identity's signature.
Modifications(m) ==
  ( {[m EXCEPT !.filename = "other.txt"], [m EXCEPT !.size = @ + 1]}
    \cup {[m EXCEPT !.chunk_hashes = h] :
            h \in {Reverse(m.chunk_hashes),
                   SubSeq(m.chunk_hashes, 1, Len(m.chunk_hashes) - 1),
                   Append(m.chunk_hashes, hex_encode(Sha256(<<>>))),
                   [i \in DOMAIN m.chunk_hashes |->
                      IF i = 1 THEN hex_encode(Sha256(<<1, 1, 1, 1>>))
                      ELSE m.chunk_hashes[i]]}}
    \cup {[m EXCEPT !.sender_pubkey = k] :
            k \in {None} \cup {Some(to_vec(public_key_bytes(id), PUBKEY_LEN)) :
                                 id \in Identities}}
    \cup (IF m.sender_pubkey = None THEN {}
          ELSE {[m EXCEPT !.sender_pubkey = Some([Unwrap(@) EXCEPT !.len = n])] :
                  n \in {PUBKEY_LEN - 1, PUBKEY_LEN + 1}})
    \cup {[m EXCEPT !.sender_sig = None]}
    \cup (IF m.sender_sig = None THEN {}
          ELSE {[m EXCEPT !.sender_sig = Some([Unwrap(@) EXCEPT !.len = n])] :
                  n \in {SIG_LEN - 1, SIG_LEN + 1}}
               \cup {[m EXCEPT !.sender_sig = Some([Unwrap(@) EXCEPT
                                                     !.val.signer = id.signing_key])] :
                       id \in Identities}) )
  \ {m}

MfBuild ==
  /\ mf_pc = "new"
  /\ mf_m' = from_file(file, reads)
  /\ mf_pc' = "built"
  /\ UNCHANGED <<mf_signed, mf_last, transferVars, storeVars, concVars, frameVars>>

\* sign, of the manifest as built or as another identity signed it.
MfSign ==
  /\ mf_pc \in {"built", "signed"}
  /\ \E identity \in Identities :
       /\ mf_m' = sign(mf_m, identity)
       /\ mf_signed' = Some([m |-> sign(mf_m, identity), identity |-> identity])
  /\ mf_pc' = "signed"
  /\ UNCHANGED <<mf_last, transferVars, storeVars, concVars, frameVars>>

\* One field of the signed manifest is changed; nothing is signed again.
MfModify ==
  /\ mf_pc = "signed"
  /\ \E m \in Modifications(mf_m) : mf_m' = m
  /\ mf_pc' = "modified"
  /\ UNCHANGED <<mf_signed, mf_last, transferVars, storeVars, concVars, frameVars>>

MfVerify ==
  /\ mf_pc # "new"
  /\ mf_last' = [op |-> "verify", m |-> Some(mf_m), key |-> None,
                 ret |-> verify(mf_m)]
  /\ UNCHANGED <<mf_pc, mf_m, mf_signed, transferVars, storeVars, concVars,
                 frameVars>>

MfVerifyWithPubkey ==
  /\ mf_pc # "new"
  /\ \E identity \in Identities :
       mf_last' = [op |-> "verify_with_pubkey", m |-> Some(mf_m),
                   key |-> Some(public_key_bytes(identity)),
                   ret |-> verify_with_pubkey(mf_m, public_key_bytes(identity))]
  /\ UNCHANGED <<mf_pc, mf_m, mf_signed, transferVars, storeVars, concVars,
                 frameVars>>

NextManifest ==
  \/ MfBuild
  \/ MfSign
  \/ MfModify
  \/ MfVerify
  \/ MfVerifyWithPubkey

SpecManifest == InitManifest /\ [][NextManifest]_vars

\* ------------------------------------- send_manifest_over on any manifest
\* send_manifest_over is public and takes the manifest as an argument: the
\* manifest of the file as from_file built it, or as any identity signed it.
\* The stream is reliable and the sender's store holds every chunk.
InputManifests(built) == {built} \cup {sign(built, id) : id \in Identities}

InitSend ==
  /\ file \in BytesUpTo(MaxLiveFileLen)
  /\ chunk_size \in 0..MaxChunkSize
  /\ reads \in ReadPlans(Len(file), chunk_size)
  /\ s_input \in InputManifests(from_file(file, reads))
  /\ s_manifest = s_input
  /\ sstore = PutAll(EmptyStore, Range(SplitBy(file, reads)))
  /\ rstore = EmptyStore /\ rstore0 = rstore
  /\ Idle
  /\ StoreIdle /\ ManifestIdle /\ FrameIdle /\ SessionIdle /\ AssembleIdle

SpecSend == InitSend /\ [][NextReliable]_vars

\* ----------------------------------------------------- the framing alone
\* One direction of a transport as a byte stream: write_lp and
\* send_encrypted_frame append to it, the connection may end after any
\* number of the written bytes arrived, and an operation reads frame after
\* frame with read_lp or read_encrypted_frame until one of them fails.
RECURSIVE Pow(_, _)
Pow(b, e) == IF e = 0 THEN 1 ELSE b * Pow(b, e - 1)

\* The values a length prefix can hold (2^32 in the source).
LenModulus == Pow(Cardinality(Byte), LenPrefixBytes)

\* `len as u32`
as_u32(n) == n % LenModulus

\* u32::to_be_bytes: most significant digit first.
RECURSIVE BeDigits(_, _)
BeDigits(n, len) ==
  IF len = 0 THEN <<>>
  ELSE BeDigits(n \div Cardinality(Byte), len - 1) \o <<n % Cardinality(Byte)>>

to_be_bytes(n) == BeDigits(n, LenPrefixBytes)

\* u32::from_be_bytes
RECURSIVE from_be_bytes(_)
from_be_bytes(b) ==
  IF b = <<>> THEN 0
  ELSE from_be_bytes(SubSeq(b, 1, Len(b) - 1)) * Cardinality(Byte) + b[Len(b)]

\* The bytes write_lp puts on the transport.
write_lp(data) == to_be_bytes(as_u32(Len(data))) \o data

RECURSIVE Sum(_)
Sum(q) == IF q = <<>> THEN 0 ELSE Head(q) + Sum(Tail(q))

\* XChaCha20-Poly1305 at byte level: a keyed stream cipher followed by a
\* keyed tag of TagLen bytes over the plaintext.
FrameKey == <<1>>

Keystream(key, nonce) == (Sum(key) + Sum(nonce)) % Cardinality(Byte)

AeadTag(key, nonce, pt) ==
  [j \in 1..TagLen |-> (Sum(pt) + Keystream(key, nonce) + j) % Cardinality(Byte)]

encrypt_in_place(key, nonce, pt) ==
  [i \in DOMAIN pt |-> (pt[i] + Keystream(key, nonce)) % Cardinality(Byte)]
  \o AeadTag(key, nonce, pt)

decrypt_in_place(key, nonce, cipher) ==
  IF Len(cipher) < TagLen THEN None
  ELSE LET ct == SubSeq(cipher, 1, Len(cipher) - TagLen)
           tag == SubSeq(cipher, Len(cipher) - TagLen + 1, Len(cipher))
           pt == [i \in DOMAIN ct |->
                    (ct[i] + Cardinality(Byte) - Keystream(key, nonce))
                      % Cardinality(Byte)]
       IN IF tag = AeadTag(key, nonce, pt) THEN Some(pt) ELSE None

\* The bytes send_encrypted_frame puts on the transport.
send_encrypted_frame(key, nonce, plaintext) ==
  LET frame == nonce \o encrypt_in_place(key, nonce, plaintext)
  IN to_be_bytes(as_u32(Len(frame))) \o frame

\* Faulty variant: at end of stream the bytes that did arrive are returned.
read_exact_partial(stream, n) ==
  [ok |-> TRUE, data |-> SubSeq(stream, 1, Min(n, Len(stream))),
   rest |-> SubSeq(stream, Min(n, Len(stream)) + 1, Len(stream))]

\* read_exact of n bytes, once n bytes arrived or the stream ended: the
\* bytes, or UnexpectedEof with what had arrived consumed.
read_exact(stream, n) ==
  IF Len(stream) >= n
  THEN [ok |-> TRUE, data |-> SubSeq(stream, 1, n),
        rest |-> SubSeq(stream, n + 1, Len(stream))]
  ELSE [ok |-> FALSE, data |-> <<>>, rest |-> <<>>]

\* Faulty variant: a frame of exactly the largest length is refused as well.
TooLargeInclusive(len) == len >= MaxFrameLen

\* `if len > 10 * 1024 * 1024`
TooLarge(len) == len > MaxFrameLen

\* read_lp, and the same steps at the head of read_encrypted_frame.
read_lp(stream) ==
  LET lenb == read_exact(stream, LenPrefixBytes)
  IN IF ~lenb.ok
     THEN [ret |-> "UnexpectedEof", data |-> <<>>, rest |-> lenb.rest]
     ELSE IF TooLarge(from_be_bytes(lenb.data))
     THEN [ret |-> "FrameTooLarge", data |-> <<>>, rest |-> lenb.rest]
     ELSE LET buf == read_exact(lenb.rest, from_be_bytes(lenb.data))
          IN IF ~buf.ok
             THEN [ret |-> "UnexpectedEof", data |-> <<>>, rest |-> buf.rest]
             ELSE [ret |-> "Ok", data |-> buf.data, rest |-> buf.rest]

\* Session::read_encrypted_frame
read_encrypted_frame(key, stream) ==
  LET fr == read_lp(stream)
  IN IF fr.ret # "Ok" THEN fr
     ELSE IF Len(fr.data) < XNonceLen
     THEN [ret |-> "FrameTooSmall", data |-> <<>>, rest |-> fr.rest]
     ELSE LET pt == decrypt_in_place(key, SubSeq(fr.data, 1, XNonceLen),
                                     SubSeq(fr.data, XNonceLen + 1, Len(fr.data)))
          IN IF pt = None
             THEN [ret |-> "DecryptionFailed", data |-> <<>>, rest |-> fr.rest]
             ELSE [ret |-> "Ok", data |-> Unwrap(pt), rest |-> fr.rest]

\* A read returns once the stream ended or holds all the bytes it asks for.
ReadReady ==
  \/ fr_closed
  \/ /\ Len(fr_stream) >= LenPrefixBytes
     /\ LET len == from_be_bytes(SubSeq(fr_stream, 1, LenPrefixBytes))
        IN TooLarge(len) \/ Len(fr_stream) >= LenPrefixBytes + len

\* Byte strings of each length: all zero, and alternating.
Patterned(maxLen) ==
  {[i \in 1..n |-> (i * k) % Cardinality(Byte)] : n \in 0..maxLen, k \in 0..1}

FramePayloads == Patterned(MaxPayloadLen)
FramePlaintexts == Patterned(MaxPlainLen)
FrameNonces == {[i \in 1..XNonceLen |-> k] : k \in Byte}

\* The reader lost the frame boundaries of the writer.
Lost == [kind |-> "lost", data |-> <<>>, bytes |-> <<>>]

IsPrefix(a, b) == Len(a) <= Len(b) /\ SubSeq(b, 1, Len(a)) = a

FrameWrite ==
  /\ ~fr_closed
  /\ fr_writes < MaxFrameWrites
  /\ \E b \in FramePayloads :
       /\ fr_stream' = fr_stream \o write_lp(b)
       /\ fr_pending' = Append(fr_pending,
                               [kind |-> "plain", data |-> b, bytes |-> write_lp(b)])
  /\ fr_writes' = fr_writes + 1
  /\ UNCHANGED <<fr_closed, fr_pc, fr_last, transferVars, storeVars, concVars,
                 manifestVars>>

FrameWriteEncrypted ==
  /\ ~fr_closed
  /\ fr_writes < MaxFrameWrites
  /\ \E pt \in FramePlaintexts, nonce \in FrameNonces :
       LET bytes == send_encrypted_frame(FrameKey, nonce, pt)
       IN /\ fr_stream' = fr_stream \o bytes
          /\ fr_pending' = Append(fr_pending,
                                  [kind |-> "enc", data |-> pt, bytes |-> bytes])
  /\ fr_writes' = fr_writes + 1
  /\ UNCHANGED <<fr_closed, fr_pc, fr_last, transferVars, storeVars, concVars,
                 manifestVars>>

\* The connection ends; of the bytes written and not yet read the first k
\* arrive.
FrameBreak ==
  /\ ~fr_closed
  /\ \E k \in 0..Len(fr_stream) : fr_stream' = SubSeq(fr_stream, 1, k)
  /\ fr_closed' = TRUE
  /\ UNCHANGED <<fr_pending, fr_writes, fr_pc, fr_last, transferVars,
                 storeVars, concVars, manifestVars>>

\* The state a frame read leaves: its result, the stream behind it, and the
\* reading operation ended by `?` unless the read returned Ok.
AfterRead(op, r) ==
  LET whole == /\ fr_pending # <<>>
               /\ Head(fr_pending) # Lost
               /\ IsPrefix(Head(fr_pending).bytes, fr_stream)
  IN /\ fr_last' = [op |-> op, before |-> fr_stream, eof |-> fr_closed,
                    ret |-> r.ret, data |-> r.data, rest |-> r.rest,
                    sent |-> IF whole THEN Some(Head(fr_pending)) ELSE None]
     /\ fr_stream' = r.rest
     /\ fr_pending' =
          IF whole /\ Len(fr_stream) - Len(r.rest) = Len(Head(fr_pending).bytes)
          THEN Tail(fr_pending)
          ELSE <<Lost>> \o fr_pending
     /\ fr_pc' = IF r.ret = "Ok" THEN "reading" ELSE "failed"
     /\ UNCHANGED <<fr_closed, fr_writes, transferVars, storeVars, concVars,
                    manifestVars>>

\* read_lp(transport).await?
FrameRead ==
  /\ fr_pc = "reading"
  /\ ReadReady
  /\ AfterRead("read_lp", read_lp(fr_stream))

\* session.read_encrypted_frame(&mut transport).await?
FrameReadEncrypted ==
  /\ fr_pc = "reading"
  /\ ReadReady
  /\ AfterRead("read_encrypted_frame", read_encrypted_frame(FrameKey, fr_stream))

NextFrame ==
  \/ FrameWrite
  \/ FrameWriteEncrypted
  \/ FrameBreak
  \/ FrameRead
  \/ FrameReadEncrypted

SpecFrame == InitStore /\ [][NextFrame]_vars

\* ----------------------------------------------------- the handshake alone
\* initiator_handshake and responder_handshake over a transport on which the
\* message in flight can be replaced once: cut short, extended by a byte,
\* given a point of small order as x_pub, given another nonce or a signature
\* that does not verify, or replaced by a message of another identity.
HandshakeAlterations(orig) ==
  {[orig EXCEPT !.len = l] : l \in {0, HandshakeLen - 1, HandshakeLen + 1}}
  \cup {[orig EXCEPT !.x_pub = LowOrderPoint],
        [orig EXCEPT !.x_pub = LowOrderPoint, !.len = HandshakeLen + 1],
        [orig EXCEPT !.nonce = "nonce_other"],
        [orig EXCEPT !.sig.msg = <<orig.x_pub, "nonce_other">>]}
  \cup AttackerHandshakeMessages(orig)

NetAlterA ==
  /\ i2r # <<>>
  /\ Head(i2r) = HandshakeMessage(SenderIdentity, XSecretI, NonceA)
  /\ \E msg \in HandshakeAlterations(Head(i2r)) :
       i2r' = <<msg>> \o Tail(i2r)
  /\ tampered' = TRUE
  /\ UNCHANGED <<senderVars, receiverVars, inputVars, r2i, i2r_closed,
                 r2i_closed, wire>>

NetAlterB ==
  /\ r2i # <<>>
  /\ Head(r2i) = HandshakeMessage(ReceiverIdentity, XSecretR, NonceB)
  /\ \E msg \in HandshakeAlterations(Head(r2i)) :
       r2i' = <<msg>> \o Tail(r2i)
  /\ tampered' = TRUE
  /\ UNCHANGED <<senderVars, receiverVars, inputVars, i2r, i2r_closed,
                 r2i_closed, wire>>

NextHandshake ==
  \/ SendStart
  \/ SendReadB
  \/ RecvHandshake
  \/ NetAlterA
  \/ NetAlterB

SpecHandshake == InitStore /\ [][NextHandshake]_vars

\* ------------------------------------------- concurrent receiving tasks
\* listen_for_transfers spawns one handle_transfer task per connection; the
\* tasks share the LocalStorage and the output directory.  Each task is
\* followed from the return of accept_and_receive: a manifest of the peer's
\* making, and its chunks in the store.

\* Paths are sequences of components.
OutputDir == <<"/", "home", "received">>

\* The directories that exist.
Directory == {OutputDir, <<"/", "home">>, <<"/", "tmp">>}

\* The filenames a peer puts in its manifest, and Path::components of each.
Filenames == {"test.txt", "../test.txt", "sub/test.txt", "/tmp/test.txt"}

components(name) ==
  CASE name = "test.txt" -> <<"test.txt">>
    [] name = "../test.txt" -> <<"..", "test.txt">>
    [] name = "sub/test.txt" -> <<"sub", "test.txt">>
    [] name = "/tmp/test.txt" -> <<"/", "tmp", "test.txt">>

\* PathBuf::join: an absolute path replaces the base.
join(base, name) ==
  IF Head(components(name)) = "/" THEN components(name)
  ELSE base \o components(name)

\* The file a path names once the kernel resolved its ".." components.
RECURSIVE Resolve(_)
Resolve(path) ==
  IF path = <<>> THEN <<>>
  ELSE LET init == Resolve(SubSeq(path, 1, Len(path) - 1))
           last == path[Len(path)]
       IN IF last = ".." /\ Len(init) > 1
          THEN SubSeq(init, 1, Len(init) - 1)
          ELSE IF last = ".." THEN init
          ELSE Append(init, last)

Parent(path) == SubSeq(path, 1, Len(path) - 1)

\* write_all(data) through a file handle whose cursor is at off.
RECURSIVE WriteAllAt(_, _, _)
WriteAllAt(content, off, data) ==
  IF data = <<>> THEN content
  ELSE WriteAllAt(WriteAt(content, off, Head(data)), off + 1, Tail(data))

\* The manifests a peer sends: of any file, under any of the filenames or
\* declaring another size, signed by the peer or not signed.
PeerManifests(content) ==
  LET built == {from_file(content, plan) : plan \in ReadPlans(Len(content), 1)}
      named == {[m EXCEPT !.filename = name] : m \in built, name \in Filenames}
      sized == {[m EXCEPT !.size = @ + 1] : m \in built}
  IN {sign(m, AttackerIdentity) : m \in named \cup sized}
     \cup {m \in named : m.filename = "test.txt" /\ content = <<>>}

\* accept_and_receive returned Ok(manifest) to the task: the chunks it
\* received are in the store.
AsmAccept(t) ==
  /\ asm_task[t].pc = "idle"
  /\ \E content \in BytesUpTo(MaxAsmFileLen) :
       \E m \in PeerManifests(content) :
         /\ asm_task' = [asm_task EXCEPT ![t].pc = "received",
                                          ![t].m = Some(m),
                                          ![t].content = content]
         /\ asm_store' = PutAll(asm_store, Range(SplitBy(content,
                            CHOOSE plan \in ReadPlans(Len(content), 1) : TRUE)))
  /\ UNCHANGED <<asm_fs, clientVars, storeVars, concVars, manifestVars,
                 frameVars, sessionVars>>

\* handle_transfer: manifest.verify()
AsmVerify(t) ==
  /\ asm_task[t].pc = "received"
  /\ IF verify(Unwrap(asm_task[t].m)) = "Ok"
     THEN asm_task' = [asm_task EXCEPT ![t].pc = "verified"]
     ELSE asm_task' = [asm_task EXCEPT ![t].pc = "failed",
                                       ![t].err = "InvalidManifestSignature"]
  /\ UNCHANGED <<asm_fs, asm_store, clientVars, storeVars, concVars,
                 manifestVars, frameVars, sessionVars>>

\* handle_transfer: output_dir.join(&manifest.filename), File::create
\* (create or truncate; fails when the directory does not exist).
AsmCreate(t) ==
  /\ asm_task[t].pc = "verified"
  /\ LET output_path == Resolve(join(OutputDir, Unwrap(asm_task[t].m).filename))
     IN IF Parent(output_path) \in Directory
        THEN /\ asm_fs' = (output_path :> <<>>) @@ asm_fs
             /\ asm_task' = [asm_task EXCEPT ![t].pc = "writing",
                                              ![t].path = output_path]
        ELSE /\ asm_task' = [asm_task EXCEPT ![t].pc = "failed",
                                              ![t].err = "Io"]
             /\ UNCHANGED asm_fs
  /\ UNCHANGED <<asm_store, clientVars, storeVars, concVars, manifestVars,
                 frameVars, sessionVars>>

\* handle_transfer, one iteration of the assembly loop: get_chunk, then
\* write_all at the cursor of the task's own file handle.
AsmWrite(t) ==
  /\ asm_task[t].pc = "writing"
  /\ asm_task[t].i < Len(Unwrap(asm_task[t].m).chunk_hashes)
  /\ LET got == get_chunk(asm_store,
                          Unwrap(asm_task[t].m).chunk_hashes[asm_task[t].i + 1])
         path == asm_task[t].path
     IN IF got = IoError
        THEN /\ asm_task' = [asm_task EXCEPT ![t].pc = "failed",
                                              ![t].err = "StorageIo"]
             /\ UNCHANGED asm_fs
        ELSE IF got = None
        THEN /\ asm_task' = [asm_task EXCEPT ![t].pc = "failed",
                                              ![t].err = "MissingChunk"]
             /\ UNCHANGED asm_fs
        ELSE /\ asm_fs' = [asm_fs EXCEPT ![path] =
                             WriteAllAt(@, asm_task[t].off, Unwrap(got))]
             /\ asm_task' = [asm_task EXCEPT
                               ![t].i = @ + 1,
                               ![t].off = @ + Len(Unwrap(got))]
  /\ UNCHANGED <<asm_store, clientVars, storeVars, concVars, manifestVars,
                 frameVars, sessionVars>>

\* handle_transfer: flush and return Ok(()).  left is the output file as
\* the task leaves it.
AsmDone(t) ==
  /\ asm_task[t].pc = "writing"
  /\ asm_task[t].i = Len(Unwrap(asm_task[t].m).chunk_hashes)
  /\ asm_task' = [asm_task EXCEPT ![t].pc = "done",
                                   ![t].left = Some(asm_fs[asm_task[t].path])]
  /\ UNCHANGED <<asm_fs, asm_store, clientVars, storeVars, concVars,
                 manifestVars, frameVars, sessionVars>>

NextAssemble ==
  \/ \E t \in Tasks : AsmAccept(t)
  \/ \E t \in Tasks : AsmVerify(t)
  \/ \E t \in Tasks : AsmCreate(t)
  \/ \E t \in Tasks : AsmWrite(t)
  \/ \E t \in Tasks : AsmDone(t)

SpecAssemble == InitStore /\ [][NextAssemble]_vars

\* ------------------------------------------ encrypted frames of a session
\* Two Sessions over one transport: one calls send_encrypted_frame, the
\* other read_encrypted_frame, and the bytes in flight can be altered. The
\* reader holds the key of an honest handshake; frames are sealed under that
\* key or under the key of another handshake.
ReaderKey == ResponderSessionKey(HandshakeMessage(SenderIdentity, XSecretI, NonceA))

SessionKeys ==
  { InitiatorSessionKey(HandshakeMessage(ReceiverIdentity, XSecretR, NonceB)),
    InitiatorSessionKey(HandshakeMessage(AttackerIdentity, XSecretM, NonceB)) }

SessionPlaintexts == {ChunkBytes(d) : d \in BytesOfLen(1)}

\* One bit of a nonce flipped; flipping the same bit again restores it.
FlipBit(nonce) ==
  IF Len(nonce) = 2 /\ nonce[1] = "flipped" THEN nonce[2]
  ELSE <<"flipped", nonce>>

\* Session::send_encrypted_frame with a fresh random nonce.
SessSend ==
  /\ Len(ss_sent) < MaxSessionFrames
  /\ \E key \in SessionKeys, pt \in SessionPlaintexts :
       LET frame == EncryptedFrame(key, XNonce(Len(ss_sent) + 1), pt)
       IN /\ ss_chan' = Append(ss_chan, frame)
          /\ ss_sent' = Append(ss_sent, frame)
  /\ UNCHANGED <<ss_pc, ss_last, clientVars, storeVars, concVars, manifestVars,
                 frameVars, assembleVars>>

\* A bit of the nonce of a frame in flight is flipped.
SessFlipNonce ==
  /\ \E i \in DOMAIN ss_chan :
       ss_chan' = [ss_chan EXCEPT ![i].hdr = FlipBit(@)]
  /\ UNCHANGED <<ss_sent, ss_pc, ss_last, clientVars, storeVars, concVars,
                 manifestVars, frameVars, assembleVars>>

\* A bit of the ciphertext or tag of a frame in flight is flipped.
SessFlipCipher ==
  /\ \E i \in DOMAIN ss_chan :
       ss_chan' = [ss_chan EXCEPT ![i].intact = ~@]
  /\ UNCHANGED <<ss_sent, ss_pc, ss_last, clientVars, storeVars, concVars,
                 manifestVars, frameVars, assembleVars>>

\* The ciphertexts of two frames in flight are swapped; each frame keeps
\* its own nonce.
SessSwap ==
  /\ \E i, j \in DOMAIN ss_chan :
       /\ i < j
       /\ ss_chan' = [ss_chan EXCEPT
                        ![i] = [ss_chan[j] EXCEPT !.hdr = ss_chan[i].hdr],
                        ![j] = [ss_chan[i] EXCEPT !.hdr = ss_chan[j].hdr]]
  /\ UNCHANGED <<ss_sent, ss_pc, ss_last, clientVars, storeVars, concVars,
                 manifestVars, frameVars, assembleVars>>

\* Session::read_encrypted_frame on the next frame; its error is fatal to
\* the caller.
SessRead ==
  /\ ss_pc = "reading"
  /\ ss_chan # <<>>
  /\ LET r == Decrypt(ReaderKey, Head(ss_chan))
     IN IF IsSome(r)
        THEN /\ ss_last' = [ret |-> "Ok", data |-> r,
                            frame |-> Some(Head(ss_chan))]
             /\ ss_pc' = ss_pc
        ELSE /\ ss_last' = [ret |-> "DecryptionFailed", data |-> None,
                            frame |-> Some(Head(ss_chan))]
             /\ ss_pc' = "failed"
  /\ ss_chan' = Tail(ss_chan)
  /\ UNCHANGED <<ss_sent, clientVars, storeVars, concVars, manifestVars,
                 frameVars, assembleVars>>

NextSession ==
  \/ SessSend
  \/ SessFlipNonce
  \/ SessFlipCipher
  \/ SessSwap
  \/ SessRead

SpecSession == InitStore /\ [][NextSession]_vars

\* ================================================================== claims
SenderHoldsAll ==
  \A i \in DOMAIN s_manifest.chunk_hashes :
    IsSome(get_chunk(sstore, s_manifest.chunk_hashes[i]))

\* Every read of from_file filled its buffer, or reached the end of the file.
RECURSIVE FullPlan(_, _)
FullPlan(remaining, bufLen) ==
  IF remaining = 0 \/ bufLen = 0 THEN <<>>
  ELSE <<Min(bufLen, remaining)>> \o FullPlan(remaining - Min(bufLen, remaining), bufLen)

AcceptReturnedOk ==
  \/ r_pc \in {"returned", "assemble", "done"}
  \/ r_pc = "failed" /\ r_err \in {"MissingSignature", "InvalidSignature", "MissingChunk"}

Fidelity ==
  /\ s_pc # "failed"
  /\ r_pc # "failed"
  /\ AcceptReturnedOk =>
       \A i \in DOMAIN s_manifest.chunk_hashes :
         IsSome(get_chunk(rstore, s_manifest.chunk_hashes[i]))
  /\ r_pc = "done" => outfile = Some(file)

RECURSIVE IsSubseq(_, _)
IsSubseq(a, b) ==
  IF a = <<>> THEN TRUE
  ELSE IF b = <<>> THEN FALSE
  ELSE IF Head(a) = Head(b) THEN IsSubseq(Tail(a), Tail(b))
  ELSE IsSubseq(a, Tail(b))

WirePositions(kind) == {p \in DOMAIN wire : wire[p].kind = kind}
Before(p, kind) == \E q \in WirePositions(kind) : q < p

RECURSIVE ChunkIdsFrom(_)
ChunkIdsFrom(w) ==
  IF w = <<>> THEN <<>>
  ELSE IF Head(w).kind = "chunk" THEN <<Head(w).id>> \o ChunkIdsFrom(Tail(w))
  ELSE ChunkIdsFrom(Tail(w))

\* C2: on the wire the initiator message comes first, then the responder
\* message, then the encrypted manifest, then the chunk frames in
\* chunk_hashes order; no encrypted frame precedes either handshake message
\* and no chunk frame precedes the manifest frame.
C2_WireOrder ==
  /\ wire # <<>> => wire[1].kind = "msg_a"
  /\ \A k \in {"msg_a", "msg_b", "manifest"} : Cardinality(WirePositions(k)) <= 1
  /\ \A p \in DOMAIN wire :
       /\ wire[p].kind = "msg_b" => Before(p, "msg_a")
       /\ wire[p].kind \in {"manifest", "chunk"} =>
            Before(p, "msg_a") /\ Before(p, "msg_b")
       /\ wire[p].kind = "chunk" => Before(p, "manifest")
       /\ wire[p].from = (IF wire[p].kind = "msg_b" THEN "responder" ELSE "initiator")
  /\ IsSubseq(ChunkIdsFrom(wire), s_manifest.chunk_hashes)

C2_Witness ==
  /\ Len(wire) = 6
  /\ Cardinality(Range(ChunkIdsFrom(wire))) = 2

\* C3: when both handshakes complete on messages that arrived unmodified,
\* the initiator's and the responder's session keys are equal.
C3_HandshakeAgreement ==
  ( /\ IsSome(s_key) /\ IsSome(r_key)
    /\ r_buf = Some(HandshakeMessage(SenderIdentity, XSecretI, NonceA))
    /\ s_buf = Some(HandshakeMessage(ReceiverIdentity, XSecretR, NonceB)) )
  => s_key = r_key

C3_Witness ==
  /\ IsSome(s_key) /\ IsSome(r_key) /\ ~tampered /\ s_key = r_key

\* C4: a Session is constructed only when the consumed peer message carries
\* a valid signature of the expected peer identity over x_pub || nonce.
C4_SessionOnlyAfterVerifiedPeer ==
  /\ IsSome(r_key) =>
       Ed25519Verify(public_key_bytes(SenderIdentity),
                     <<Unwrap(r_buf).x_pub, Unwrap(r_buf).nonce>>, Unwrap(r_buf).sig)
  /\ IsSome(s_key) =>
       Ed25519Verify(public_key_bytes(ReceiverIdentity),
                     <<Unwrap(s_buf).x_pub, Unwrap(s_buf).nonce>>, Unwrap(s_buf).sig)

\* C5: the receiver reads and stores chunk frames only after
\* manifest.verify() succeeded, and a transfer whose manifest fails
\* verification has written no chunk to the store.
C5_VerifyBeforeChunks ==
  /\ (r_i > 0 \/ r_written # {}) => r_verified
  /\ r_err \in {"InvalidSignature", "MissingSignature"} => r_written = {}

\* C6: every chunk accept_and_receive wrote at position i hashes to
\* chunk_hashes[i] and is stored under exactly that id; a chunk whose hash
\* differs is never stored, so the store holds its initial content and the
\* matching chunks only.
C6_ReceiverStoreIntegrity ==
  /\ \A w \in r_written :
       /\ hex_encode(Sha256(w.data)) = Unwrap(r_manifest).chunk_hashes[w.i]
       /\ w.id = Unwrap(r_manifest).chunk_hashes[w.i]
       /\ get_chunk(rstore, w.id) = Some(w.data)
  /\ \A i \in r_mismatch : \A w \in r_written : w.i # i
  /\ rstore = PutAll(rstore0, {w.data : w \in r_written})

C6_Witness ==
  /\ r_written # {}
  /\ r_mismatch # {}
  /\ r_pc = "returned"

\* C7: send_manifest_over returns Ok only after one chunk frame per entry of
\* chunk_hashes, in order, and never skips a chunk its store lacks.
C7_SendAllOrFail ==
  s_pc = "done" =>
    /\ ChunkIdsFrom(wire) = s_manifest.chunk_hashes
    /\ s_skipped = {}

\* C8: accept_and_receive returns Ok only if every received chunk hashed to
\* its expected id and was stored.
C8_ReceiveOkOnlyIfAllStored ==
  AcceptReturnedOk =>
    /\ r_mismatch = {}
    /\ {w.i : w \in r_written} = DOMAIN Unwrap(r_manifest).chunk_hashes

\* C9: once a received chunk did not hash to its expected id, the file is
\* never reported as received, whatever the store held before.
C9_MismatchFailsAssembly ==
  r_mismatch # {} => r_pc # "done"

LowerHexAlphabet ==
  {"0", "1", "2", "3", "4", "5", "6", "7", "8", "9", "a", "b", "c", "d", "e", "f"}

HexValue(c) ==
  CHOOSE v \in 0..15 :
    <<"0", "1", "2", "3", "4", "5", "6", "7", "8", "9", "a", "b", "c", "d", "e", "f">>[v + 1] = c

IsLowerHexOf(id, digest) ==
  /\ Len(id) = 2 * Len(digest)
  /\ \A k \in DOMAIN id : id[k] \in LowerHexAlphabet
  /\ \A j \in DOMAIN digest :
       HexValue(id[2 * j - 1]) * 16 + HexValue(id[2 * j]) = digest[j]

\* C10 (under SpecStore): put_chunk(b) returns the lowercase hex SHA-256 of b
\* and leaves b readable under that id; every later get_chunk of the id of a
\* byte string that was put returns exactly that byte string.
C10_StoreRoundTrip ==
  /\ store_last.op = "put" =>
       /\ IsLowerHexOf(store_last.id, Sha256(store_last.data))
       /\ get_chunk(store_fs, store_last.id) = Some(store_last.data)
  /\ store_last.op = "get" =>
       \A b \in store_puts :
         IsLowerHexOf(store_last.id, Sha256(b)) => store_last.ret = Some(b)

C10_Witness ==
  /\ store_last.op = "get"
  /\ Cardinality(store_puts) = MaxPuts
  /\ \E b \in store_puts : b # <<>> /\ store_last.ret = Some(b)

\* C11 (under SpecStore): a put_chunk of bytes that were put before returns
\* the id the first put returned and leaves the store as it was: every
\* get_chunk answers as before, no path is added, changed or removed.
C11_PutIdempotent ==
  (store_last.op = "put" /\ store_last.again) =>
    /\ <<store_last.data, store_last.id>> \in store_ids
    /\ \A id \in AskedIds :
         get_chunk(store_fs, id) = get_chunk(store_last.before, id)
    /\ store_fs = store_last.before

C11_Witness ==
  /\ store_last.op = "put" /\ store_last.again
  /\ store_last.data # <<>>
  /\ Cardinality(store_puts) >= 2

\* C13 (under SpecStore): get_chunk of an id no put_chunk ever returned
\* answers Ok(None), never an error, and leaves the store unchanged.
C13_AbsentIsNone ==
  ( /\ store_last.op = "get"
    /\ \A p \in store_ids : p[2] # store_last.id ) =>
    /\ store_last.ret = None
    /\ store_fs = store_last.before

\* C12 (under SpecConc): whatever the interleaving of concurrent put_chunk
\* and get_chunk calls, a get_chunk that returned answered absent or the
\* complete bytes whose SHA-256 is the id asked for.
C12_AtomicGet ==
  cc_get.pc = "returned" =>
    \/ cc_get.ret = None
    \/ hex_encode(Sha256(Unwrap(cc_get.ret))) = cc_get.id

\* The chunk a hash of a manifest refers to.
ChunkOf(h) == CHOOSE b \in BytesUpTo(MaxFileLen) : hex_encode(Sha256(b)) = h

RECURSIVE Concat(_)
Concat(q) == IF q = <<>> THEN <<>> ELSE Head(q) \o Concat(Tail(q))

\* C14 (under SpecManifest): for chunk_size >= 1 and whatever the reads
\* return, the chunks chunk_hashes refers to concatenate to the file, size is
\* the file length, every chunk but the last has chunk_size bytes, and there
\* are ceil(size / chunk_size) hashes.
C14_HashClosure ==
  (mf_pc = "built" /\ chunk_size >= 1) =>
    LET h == mf_m.chunk_hashes
    IN /\ Concat([i \in DOMAIN h |-> ChunkOf(h[i])]) = file
       /\ mf_m.size = Len(file)
       /\ \A i \in 1..(Len(h) - 1) : Len(ChunkOf(h[i])) = chunk_size
       /\ Len(h) = (mf_m.size + chunk_size - 1) \div chunk_size

\* C15 (under SpecManifest): a manifest as sign(I) left it passes verify(),
\* passes verify_with_pubkey under I's public key, and fails
\* verify_with_pubkey with InvalidSignature under any other identity's key.
C15_SignThenVerify ==
  (IsSome(mf_signed) /\ mf_last.m = Some(Unwrap(mf_signed).m)) =>
    /\ mf_last.op = "verify" => mf_last.ret = "Ok"
    /\ mf_last.op = "verify_with_pubkey" =>
         mf_last.ret =
           (IF Unwrap(mf_last.key) = public_key_bytes(Unwrap(mf_signed).identity)
            THEN "Ok" ELSE "InvalidSignature")

C15_Witness ==
  /\ IsSome(mf_signed) /\ mf_last.m = Some(Unwrap(mf_signed).m)
  /\ mf_last.op = "verify_with_pubkey"
  /\ mf_last.ret = "InvalidSignature"
  /\ Len(Unwrap(mf_last.m).chunk_hashes) >= 2

SignedFields(m) == <<m.filename, m.size, m.chunk_hashes, m.sender_pubkey>>

C17_MalformedClassified ==
  mf_last.op = "verify" =>
    LET m == Unwrap(mf_last.m)
    IN IF m.sender_sig = None \/ m.sender_pubkey = None
       THEN mf_last.ret = "MissingSignature"
       ELSE ( \/ Unwrap(m.sender_sig).len # SIG_LEN
              \/ Unwrap(m.sender_pubkey).len # PUBKEY_LEN )
            => mf_last.ret = "MalformedSignature"

C17_Witness ==
  /\ mf_last.op = "verify"
  /\ mf_last.ret = "MalformedSignature"
  /\ Unwrap(mf_last.m).sender_sig # None
  /\ Unwrap(Unwrap(mf_last.m).sender_sig).len = SIG_LEN
  /\ Unwrap(Unwrap(mf_last.m).sender_pubkey).len # PUBKEY_LEN

\* C18 (under SpecFrame): read_lp at the frame write_lp(b) wrote returns
\* exactly b and consumes the prefix and Len(b) bytes when b has at most
\* MaxFrameLen bytes, and fails with FrameTooLarge when b is longer.
C18_FrameRoundTrip ==
  ( /\ fr_last.op = "read_lp" /\ IsSome(fr_last.sent)
    /\ Unwrap(fr_last.sent).kind = "plain" ) =>
    LET b == Unwrap(fr_last.sent).data
    IN IF Len(b) <= MaxFrameLen
       THEN /\ fr_last.ret = "Ok" /\ fr_last.data = b
            /\ Len(fr_last.before) - Len(fr_last.rest) = LenPrefixBytes + Len(b)
       ELSE fr_last.ret = "FrameTooLarge"

\* The number a big-endian prefix spells, digit by digit.
BeValue(b) ==
  Sum([i \in DOMAIN b |-> b[i] * Pow(Cardinality(Byte), Len(b) - i)])

Declared(stream) == BeValue(SubSeq(stream, 1, LenPrefixBytes))

\* C19 (under SpecFrame): a frame read, plain or encrypted, whose prefix
\* declares more than MaxFrameLen bytes fails with FrameTooLarge having
\* consumed the prefix and no byte after it; a prefix declaring exactly
\* MaxFrameLen is not refused.
C19_FrameSizeBound ==
  ( /\ fr_last.op \in {"read_lp", "read_encrypted_frame"}
    /\ Len(fr_last.before) >= LenPrefixBytes ) =>
    /\ Declared(fr_last.before) > MaxFrameLen =>
         /\ fr_last.ret = "FrameTooLarge"
         /\ fr_last.rest =
              SubSeq(fr_last.before, LenPrefixBytes + 1, Len(fr_last.before))
    /\ Declared(fr_last.before) <= MaxFrameLen => fr_last.ret # "FrameTooLarge"
    /\ ( /\ Declared(fr_last.before) = MaxFrameLen
         /\ Len(fr_last.before) >= LenPrefixBytes + MaxFrameLen
         /\ fr_last.op = "read_lp" ) => fr_last.ret = "Ok"

C19_Witness ==
  /\ fr_last.op = "read_encrypted_frame"
  /\ fr_last.ret = "FrameTooLarge"
  /\ Declared(fr_last.before) = LenModulus - 1
  /\ fr_last.rest # <<>>

\* C20 (under SpecFrame): a frame read on a stream that ended before the
\* prefix or before the declared bytes arrived fails with UnexpectedEof and
\* returns no bytes, and the reading operation ends at the first read that
\* failed: it reads no further frame.
C20_TruncationFatal ==
  /\ fr_last.op \in {"read_lp", "read_encrypted_frame"} =>
       /\ ( \/ Len(fr_last.before) < LenPrefixBytes
            \/ /\ Declared(fr_last.before) <= MaxFrameLen
               /\ Len(fr_last.before) < LenPrefixBytes + Declared(fr_last.before) )
          => (fr_last.eof /\ fr_last.ret = "UnexpectedEof")
       /\ fr_last.ret = "UnexpectedEof" => fr_last.data = <<>>
       /\ fr_last.ret # "Ok" => fr_pc = "failed"
  /\ fr_pc = "failed" => fr_last.ret \notin {"", "Ok"}

C20_Witness ==
  /\ fr_last.op = "read_lp"
  /\ fr_last.ret = "UnexpectedEof"
  /\ Len(fr_last.before) > LenPrefixBytes
  /\ fr_pc = "failed"

\* The frame the last read_encrypted_frame consumed is one that
\* send_encrypted_frame produced, byte for byte.
SessUnaltered ==
  /\ IsSome(ss_last.frame)
  /\ Unwrap(ss_last.frame) \in Range(ss_sent)

\* C21 (under SpecSession): read_encrypted_frame returns a plaintext only
\* for a frame that send_encrypted_frame produced under the reader's session
\* key and that arrived unaltered, and the plaintext is the one sent; a frame
\* with a bit of its nonce or of its ciphertext/tag flipped, with its
\* ciphertext swapped with that of another frame, or sealed under another
\* key, fails with DecryptionFailed and yields no plaintext.
C21_FrameIntegrity ==
  /\ ss_last.ret = "Ok" =>
       /\ SessUnaltered
       /\ Unwrap(ss_last.frame).key = ReaderKey
       /\ ss_last.data = Some(Unwrap(ss_last.frame).pt)
  /\ (ss_last.ret # "" /\ (~SessUnaltered \/ Unwrap(ss_last.frame).key # ReaderKey)) =>
       /\ ss_last.ret = "DecryptionFailed"
       /\ ss_last.data = None
       /\ ss_pc = "failed"

\* A frame whose ciphertext was swapped with that of another frame sealed
\* under the same key, and nothing else, was read and failed.
C21_Witness ==
  /\ ss_last.ret = "DecryptionFailed"
  /\ LET f == Unwrap(ss_last.frame)
     IN /\ f.key = ReaderKey /\ f.intact
        /\ f.hdr # f.xnonce
        /\ f.hdr \in {XNonce(n) : n \in 1..MaxSessionFrames}

\* The handshake message each side consumed.
InitiatorConsumed == Unwrap(s_buf)
ResponderConsumed == Unwrap(r_buf)

\* C22 (under SpecHandshake): a handshake that consumed a peer message
\* shorter than 128 bytes has returned HandshakeTooShort and built no
\* Session; a responder that consumed a short initiator message has written
\* no responder message.
C22_ShortMessageAborts ==
  /\ (IsSome(s_buf) /\ InitiatorConsumed.len < 128) =>
       /\ s_pc = "failed" /\ s_err = "HandshakeTooShort"
       /\ s_key = None
  /\ (IsSome(r_buf) /\ ResponderConsumed.len < 128) =>
       /\ r_pc = "failed" /\ r_err = "HandshakeTooShort"
       /\ r_key = None
       /\ r2i = <<>>
       /\ \A i \in DOMAIN wire : wire[i].from # "responder"

\* The responder consumed a message one byte short and failed.
C22_Witness ==
  /\ IsSome(r_buf) /\ ResponderConsumed.len = 127
  /\ r_err = "HandshakeTooShort"

\* C23 (under SpecHandshake): a handshake whose peer x_pub makes the X25519
\* shared secret all zero fails and produces no Session.
C23_ZeroSecretRejected ==
  /\ (IsSome(s_buf) /\ InitiatorConsumed.len >= 128
        /\ diffie_hellman(XSecretI, InitiatorConsumed.x_pub) = AllZeroSecret) =>
       s_pc = "failed" /\ s_key = None
  /\ (IsSome(r_buf) /\ ResponderConsumed.len >= 128
        /\ diffie_hellman(XSecretR, ResponderConsumed.x_pub) = AllZeroSecret) =>
       r_pc = "failed" /\ r_key = None

\* C26 (under SpecHandshake): each role derives its session key with the
\* info string (initiator's nonce, responder's nonce): the initiator its own
\* nonce then the peer's, the responder the peer's nonce then its own; when
\* each consumed the nonce the other sent, the two info strings are equal.
C26_NonceOrder ==
  /\ IsSome(s_key) =>
       Unwrap(s_key).info = <<NonceA, InitiatorConsumed.nonce>>
  /\ IsSome(r_key) =>
       Unwrap(r_key).info = <<ResponderConsumed.nonce, NonceB>>
  /\ (IsSome(s_key) /\ IsSome(r_key) /\ InitiatorConsumed.nonce = NonceB
        /\ ResponderConsumed.nonce = NonceA) =>
       /\ Unwrap(s_key).info = <<NonceA, NonceB>>
       /\ Unwrap(r_key).info = Unwrap(s_key).info

\* Both handshakes returned a Session over an unaltered exchange.
C26_Witness ==
  /\ IsSome(s_key) /\ IsSome(r_key) /\ ~tampered
  /\ Unwrap(s_key).info = <<NonceA, NonceB>>

\* C27 (under SpecHandshake): each side writes one message of exactly 128
\* bytes, x_pub || nonce || signature by its identity over x_pub || nonce,
\* and a handshake returns a Session only if the peer message it consumed is
\* exactly 128 bytes long.
C27_ExactLength ==
  /\ s_pc # "idle" =>
       LET a == HandshakeMessage(SenderIdentity, XSecretI, NonceA)
       IN /\ a.len = 128
          /\ Ed25519Verify(public_key_bytes(SenderIdentity),
                           <<a.x_pub, a.nonce>>, a.sig)
  /\ IsSome(s_key) => InitiatorConsumed.len = 128
  /\ IsSome(r_key) => ResponderConsumed.len = 128

\* The tasks whose manifest reached the assembly step of handle_transfer.
Assembling == {t \in Tasks : asm_task[t].pc \in {"writing", "done"}}

\* C24 (under SpecAssemble): every manifest the assembly step uses has a
\* filename of one component, and the output file is a direct child of
\* output_dir.
C24_FilenameIsBasename ==
  \A t \in Assembling :
    /\ Len(components(Unwrap(asm_task[t].m).filename)) = 1
    /\ Parent(asm_task[t].path) = OutputDir

\* C25 (under SpecAssemble): a task that returned Ok left an output file
\* holding exactly the concatenation of the chunks of its own manifest,
\* whatever the other task did meanwhile.
C25_TasksIndependent ==
  \A t \in Tasks :
    asm_task[t].pc = "done" =>
      asm_task[t].left = Some(asm_task[t].content)

\* Each side of the handshake waits for a message that is not in flight.
HandshakeDeadlock ==
  /\ s_pc = "read_b" /\ r2i = <<>> /\ ~r2i_closed
  /\ r_pc = "idle" /\ i2r = <<>> /\ ~i2r_closed

\* C28 (under SpecLive): over a reliable stream both handshake calls
\* eventually return a Session, and no state is reached in which the
\* initiator waits for message B while the responder waits for message A.
C28_HandshakeProgress ==
  /\ <>(IsSome(s_key) /\ IsSome(r_key))
  /\ [](~HandshakeDeadlock)

\* Both handshake calls returned a Session.
C28_Witness ==
  /\ IsSome(s_key) /\ IsSome(r_key)
  /\ s_pc = "manifest" /\ r_pc = "manifest"

\* send_manifest_over has returned, and accept_and_receive has returned.
SendReturned == s_pc \in {"done", "failed"}
AcceptReturned == r_pc \notin {"idle", "manifest", "chunks"}
AcceptReturnedErr ==
  /\ r_pc = "failed"
  /\ r_err \in {"Io", "HandshakeTooShort", "DecryptionFailed", "Deserialize"}

\* C29 (under SpecLive): once send_manifest_over has returned and dropped
\* its transport, accept_and_receive eventually returns; when the sender
\* skipped a chunk, what it returns is an error.
C29_ReceiverTerminates ==
  /\ SendReturned ~> AcceptReturned
  /\ []((s_skipped # {} /\ AcceptReturned) => AcceptReturnedErr)

\* The sender skipped a chunk and returned Ok; accept_and_receive returned
\* an error.
C29_Witness ==
  /\ s_skipped # {} /\ s_pc = "done"
  /\ AcceptReturnedErr

\* The values the sender_pubkey field of a manifest can hold.
EmbeddedKeys ==
  {None} \cup {Some(to_vec(public_key_bytes(id), PUBKEY_LEN)) : id \in Identities}

\* The last call was verify_with_pubkey, on a manifest that differs from
\* the manifest as signed in its sender_pubkey and in nothing else.
OnlyPubkeyChanged ==
  /\ mf_last.op = "verify_with_pubkey"
  /\ IsSome(mf_signed)
  /\ Unwrap(mf_last.m) # Unwrap(mf_signed).m
  /\ Unwrap(mf_last.m) =
       [Unwrap(mf_signed).m EXCEPT !.sender_pubkey = Unwrap(mf_last.m).sender_pubkey]

\* C30 as stated (under SpecManifest): verify_with_pubkey(k) returns the
\* same result on two manifests that differ only in sender_pubkey.
C30_IgnoresEmbeddedKey ==
  mf_last.op = "verify_with_pubkey" =>
    \A pk \in EmbeddedKeys :
      verify_with_pubkey([Unwrap(mf_last.m) EXCEPT !.sender_pubkey = pk],
                         Unwrap(mf_last.key)) = mf_last.ret

\* C30 (under SpecManifest), amended: verify_with_pubkey(k) checks the
\* signature under the supplied key k and never under the embedded
\* sender_pubkey, but the embedded sender_pubkey is part of the signed
\* bytes: Ok is returned only for a signature made with the key k; on the
\* manifest as signed the result is Ok exactly when k is the signer's key;
\* on a manifest whose sender_pubkey alone was changed after signing the
\* result is InvalidSignature for every k.
C30_SuppliedKeyOnly ==
  mf_last.op = "verify_with_pubkey" =>
    LET m == Unwrap(mf_last.m)
        k == Unwrap(mf_last.key)
    IN /\ mf_last.ret = "Ok" =>
            Unwrap(m.sender_sig).val.signer = k.pk_of
       /\ (IsSome(mf_signed) /\ m = Unwrap(mf_signed).m) =>
            (mf_last.ret = "Ok" <=>
               k = public_key_bytes(Unwrap(mf_signed).identity))
       /\ OnlyPubkeyChanged => mf_last.ret = "InvalidSignature"

\* verify_with_pubkey under the signer's key failed on a manifest whose
\* sender_pubkey alone was changed after signing.
C30_Witness ==
  /\ OnlyPubkeyChanged
  /\ Unwrap(mf_last.key) = public_key_bytes(Unwrap(mf_signed).identity)
  /\ mf_last.ret = "InvalidSignature"

\* The manifests send_manifest_over put on the wire: in flight, or as the
\* receiver deserialized them.
TransmittedManifests ==
  {deserialize(i2r[i].pt.m) :
     i \in {j \in DOMAIN i2r : i2r[j].t = "enc" /\ i2r[j].pt.kind = "manifest"}}
  \cup (IF IsSome(r_manifest) THEN {Unwrap(r_manifest)} ELSE {})

\* C31 (under SpecSend): when the manifest passed to send_manifest_over
\* already verifies, the manifest on the wire carries the sender_pubkey and
\* the sender_sig of that input.
C31_SignedInputKept ==
  verify(s_input) = "Ok" =>
    \A m \in TransmittedManifests :
      /\ m.sender_pubkey = s_input.sender_pubkey
      /\ m.sender_sig = s_input.sender_sig

\* C32 (under SpecSend): whatever manifest send_manifest_over was called
\* with, the manifest in the first encrypted frame passes verify() and is
\* the manifest as sign left it.
C32_TransmittedIsSigned ==
  \A m \in TransmittedManifests :
    /\ verify(m) = "Ok"
    /\ m = sign(s_input, SenderIdentity)

\* A manifest was transmitted whose input was signed by another identity.
C32_Witness ==
  /\ TransmittedManifests # {}
  /\ verify(s_input) = "Ok"
  /\ s_input.sender_pubkey #
       Some(to_vec(public_key_bytes(SenderIdentity), PUBKEY_LEN))

\* C33 (under Spec): after a transfer that failed, during chunk reception,
\* manifest verification or assembly, the output path holds what it held
\* before the transfer, which is nothing: no partially assembled file.
C33_NoPartialOutput ==
  r_pc = "failed" => outfile = None

\* The sum of the byte lengths of the chunks a manifest references, as the
\* store holds them.
ReferencedBytes(store, m) ==
  Sum([i \in DOMAIN m.chunk_hashes |->
         Len(Unwrap(get_chunk(store, m.chunk_hashes[i])))])

\* C34 (under SpecAssemble): the size of a manifest built by from_file is
\* the sum of the lengths of its chunks; and when a task, alone, assembled
\* a file and reported it as received, the size of its manifest is the sum
\* of the lengths of the chunks referenced and the length of the output
\* file.
C34_SizeIsSumOfChunks ==
  /\ \A content \in BytesUpTo(MaxAsmFileLen) :
       \A plan \in ReadPlans(Len(content), 1) :
         from_file(content, plan).size =
           Sum([i \in DOMAIN SplitBy(content, plan) |->
                  Len(SplitBy(content, plan)[i])])
  /\ \A t \in Tasks :
       (asm_task[t].pc = "done"
          /\ \A u \in Tasks \ {t} : asm_task[u].pc = "idle") =>
         /\ Unwrap(asm_task[t].m).size =
              ReferencedBytes(asm_store, Unwrap(asm_task[t].m))
         /\ Len(Unwrap(asm_task[t].left)) = Unwrap(asm_task[t].m).size

\* C35 (under SpecFrame): the length prefix of every frame written, by
\* write_lp or by send_encrypted_frame, spells the number of payload bytes
\* written after it, whatever the length of the payload.
C35_PrefixIsLength ==
  \A i \in DOMAIN fr_pending :
    fr_pending[i].kind \in {"plain", "enc"} =>
      Declared(fr_pending[i].bytes) = Len(fr_pending[i].bytes) - LenPrefixBytes
====
